---- MODULE Spec2Model ----
(***************************************************************************)
(* Model of the payroll upload backend: the identifier helpers of          *)
(* src/src/middleware/validate.ts and the upload pipeline of               *)
(* src/src/controllers/uploadController.ts (uploadFiles, processExcelFile, *)
(* processWorksheet, insertRows) over the SalaryRecord and Person stores.  *)
(*                                                                         *)
(* A JavaScript string is a sequence of one-character strings.             *)
(***************************************************************************)
EXTENDS Integers, Sequences, FiniteSets, TLC

VARIABLES
    panIn,          \* the string handed to the identifier helpers
    panRes,         \* what normalizePAN / validatePAN / validatePANFlexible returned
    panDone,        \* which of the helper calls have run
    rowIn,          \* processWorksheet: the cells of one row and the column mapping
    rowRes,         \* processWorksheet: what the row callback extracted from it
    rowDone,        \* which steps of the row callback have run
    sheetIn,        \* findColumns: the leading rows of a worksheet
    sheetRes,       \* findColumns / processWorksheet: the mapping found
    hashIn,         \* computeRowHash: the arguments of two calls
    hashRes,        \* computeRowHash: the digests of the two calls
    textIn,         \* the text handed to the transliteration helpers
    textRes,        \* what autoConvertToNepali / convertPreetiToUnicode returned
    textDone,       \* which of the transliteration calls have run
    cellIn,         \* getCellValue: the value of the cell read
    cellRes,        \* getCellValue: the string returned
    ingestIn,       \* processWorksheet: the rows of the worksheet read
    ingestRes,      \* processWorksheet / insertRows: mapping, next row, rows and result so far
    RefreshToken,   \* the refresh-token store: token -> stored document
    refreshReq,     \* refresh: where every refresh request stands, and its locals
    authNow,        \* the clock read by new Date() in the auth handlers, in days
    issued,         \* how many tokens generateRefreshToken has returned
    logins,         \* how many logins have been served
    ticks,          \* how often the clock of the auth handlers has moved
    rotations,      \* history: the pairs of a token presented and the token issued for it
    SalaryRecord,   \* the salary-record store: identifier -> stored document
    Person,         \* the person store: identifier -> stored document
    omitUndefined,  \* whether the store layer drops an undefined $set value
    now,            \* the clock read by new Date()
    pc,             \* where the upload request handler stands
    fileCount,      \* req.files.length of the request being served
    results,        \* uploadFiles: how many UploadResults were pushed to results
    result,         \* processExcelFile: the UploadResult of the current file
    rows,           \* processExcelFile: allRows, the rows emitted so far
    visited,        \* rows visited by processWorksheet so far, over all files
    uploaded,       \* files accepted by uploadFiles so far, over all requests
    updated,        \* insertRows: bulkResult.modifiedCount of the current file
    response,       \* what uploadFiles sent: status and summary
    write           \* history: outcome of the current file's bulk write

panVars == <<panIn, panRes, panDone>>

rowVars == <<rowIn, rowRes, rowDone>>

sheetVars == <<sheetIn, sheetRes>>

hashVars == <<hashIn, hashRes>>

textVars == <<textIn, textRes, textDone>>

cellVars == <<cellIn, cellRes>>

ingestVars == <<ingestIn, ingestRes>>

authVars == <<RefreshToken, refreshReq, authNow, issued, logins, ticks, rotations>>

helperVars == <<panVars, rowVars, sheetVars, hashVars, textVars, cellVars, ingestVars, authVars>>

storeVars == <<SalaryRecord, Person, omitUndefined, now>>

requestVars == <<pc, fileCount, results, result, rows, visited, uploaded, updated, response>>

historyVars == <<write>>

vars == <<panIn, panRes, panDone, rowIn, rowRes, rowDone, sheetIn, sheetRes,
          hashIn, hashRes, SalaryRecord, Person, omitUndefined, now, pc,
          fileCount, results, result, rows, visited, uploaded,
          updated, response, write,
          textIn, textRes, textDone,
          cellIn, cellRes,
          ingestIn, ingestRes,
          RefreshToken, refreshReq, authNow, issued, logins, ticks, rotations>>

(***************************************************************************)
(* Bounds of the input strings.                                            *)
(***************************************************************************)
MaxDigits == 18
MaxZeros == 2

(***************************************************************************)
(* Strings.                                                                *)
(***************************************************************************)
DigitStr == <<"0", "1", "2", "3", "4", "5", "6", "7", "8", "9">>

Digits == {DigitStr[i] : i \in 1..10}

Whitespace == {" ", "\t"}

IsDigit(c) == c \in Digits

\* the digit strings "1", "12", ..., "1234567890123", ...
Run(n) == [i \in 1..n |-> DigitStr[(i % 10) + 1]]

Zeros(n) == [i \in 1..n |-> "0"]

\* String.prototype.trim
RECURSIVE trimStart(_)
trimStart(s) ==
    IF s = <<>> THEN <<>>
    ELSE IF Head(s) \in Whitespace THEN trimStart(Tail(s))
    ELSE s

RECURSIVE trimEnd(_)
trimEnd(s) ==
    IF s = <<>> THEN <<>>
    ELSE IF s[Len(s)] \in Whitespace THEN trimEnd(SubSeq(s, 1, Len(s) - 1))
    ELSE s

trim(s) == trimEnd(trimStart(s))

\* s.replace(/[^0-9]/g, '')
StripNonDigits(s) == SelectSeq(s, IsDigit)

\* String.prototype.padStart with a one-character fill
padStart(s, n, c) ==
    IF Len(s) >= n THEN s ELSE [i \in 1..(n - Len(s)) |-> c] \o s

\* /^[0-9]{lo,hi}$/.test(s)
DigitsBetween(s, lo, hi) ==
    /\ Len(s) >= lo
    /\ Len(s) <= hi
    /\ \A i \in 1..Len(s) : IsDigit(s[i])

(***************************************************************************)
(* src/src/middleware/validate.ts                                          *)
(***************************************************************************)
PAN_REGEX(s) == DigitsBetween(s, 9, 9)

ACCOUNT_REGEX_short(s) == DigitsBetween(s, 13, 16)

ACCOUNT_REGEX(s) == DigitsBetween(s, 13, 17)

FLEXIBLE_PAN_REGEX(s) == DigitsBetween(s, 1, 17)

validatePAN(pan) ==
    LET trimmed == trim(pan)
    IN  PAN_REGEX(trimmed) \/ ACCOUNT_REGEX(trimmed)

validatePANFlexible(pan) ==
    LET trimmed == trim(pan)
    IN  FLEXIBLE_PAN_REGEX(trimmed) /\ Len(trimmed) > 0

\* a slip that prepends one zero instead of padding to width 9
normalizePAN_onezero(pan) ==
    LET trimmed == StripNonDigits(trim(pan))
    IN  IF Len(trimmed) = 0 THEN <<>>
        ELSE IF Len(trimmed) < 9 THEN <<"0">> \o trimmed
        ELSE trimmed

\* a slip that pads to width 8
normalizePAN_width8(pan) ==
    LET trimmed == StripNonDigits(trim(pan))
    IN  IF Len(trimmed) = 0 THEN <<>>
        ELSE IF Len(trimmed) < 9 THEN padStart(trimmed, 8, "0")
        ELSE trimmed

normalizePAN(pan) ==
    LET trimmed == StripNonDigits(trim(pan))
    IN  IF Len(trimmed) = 0 THEN <<>>
        ELSE IF Len(trimmed) < 9 THEN padStart(trimmed, 9, "0")
        ELSE trimmed

NoPanRes == [norm |-> <<>>, norm2 |-> <<>>, strict |-> FALSE, flex |-> FALSE]

(***************************************************************************)
(* Bounds of the upload model.                                             *)
(***************************************************************************)
\* rows visited, files uploaded and clock ticks over one behaviour
MaxRows == 2
MaxFiles == 2
MaxClock == 1
\* the highest row number of a worksheet
MaxRowNumber == 2

(***************************************************************************)
(* Numbers.  A JavaScript number is held as a whole count of hundredths,   *)
(* so that Num(4950) is 4950 and a decimal of two places is exact; NaN is  *)
(* a value apart, below every number a cell can hold.                      *)
(***************************************************************************)
Scale == 100

Num(n) == n * Scale

NaN == 0 - Num(20000000)

\* the decimal digits of the natural number n, "0" for 0
RECURSIVE NatToString(_)
NatToString(n) ==
    IF n < 10 THEN <<DigitStr[n + 1]>>
    ELSE NatToString(n \div 10) \o <<DigitStr[(n % 10) + 1]>>

\* the last k decimal digits of n, leading zeros kept
RECURSIVE FixedDigits(_, _)
FixedDigits(n, k) ==
    IF k = 0 THEN <<>>
    ELSE FixedDigits(n \div 10, k - 1) \o <<DigitStr[(n % 10) + 1]>>

FractionDigits == Len(NatToString(Scale)) - 1

\* s without its trailing "0" characters
RECURSIVE DropTrailingZeros(_)
DropTrailingZeros(s) ==
    IF s # <<>> /\ s[Len(s)] = "0" THEN DropTrailingZeros(SubSeq(s, 1, Len(s) - 1))
    ELSE s

\* `${x}` of a number x: "4950", "123456.78", "-5", "NaN"
NumberToString(x) ==
    IF x = NaN THEN <<"N", "a", "N">>
    ELSE LET a == IF x < 0 THEN 0 - x ELSE x
             fraction == DropTrailingZeros(FixedDigits(a % Scale, FractionDigits))
         IN  (IF x < 0 THEN <<"-">> ELSE <<>>)
             \o NatToString(a \div Scale)
             \o (IF fraction = <<>> THEN <<>> ELSE <<".">> \o fraction)

(***************************************************************************)
(* src/src/utils/hash.ts.  The digest is modelled by the string that is    *)
(* hashed, `${pan.trim()}|${employer || ''}|${effectiveFromISO}|${amount}` *)
(* (SHA-256 taken as injective).                                           *)
(***************************************************************************)
\* null, as the one value that is no string of characters
NoDate == <<"null">>

MidnightUTC == <<"T", "0", "0", ":", "0", "0", ":", "0", "0", ".", "0", "0", "0", "Z">>

\* new Date(d).toISOString() of a date written "YYYY-MM-DD" (read as midnight
\* UTC) or written in full as "YYYY-MM-DDT00:00:00.000Z"
toISOString(d) == IF Len(d) = 10 THEN d \o MidnightUTC ELSE d

\* computeRowHash without the amount
computeRowHash_noAmount(pan, employer, effectiveFrom, salaryAmount) ==
    LET effectiveFromISO == IF effectiveFrom = NoDate \/ effectiveFrom = <<>>
                            THEN <<>>
                            ELSE toISOString(effectiveFrom)
    IN  trim(pan) \o <<"|">> \o employer \o <<"|">> \o effectiveFromISO
            \o <<"|">>

\* hash.ts, lines 3-15
computeRowHash(pan, employer, effectiveFrom, salaryAmount) ==
    LET effectiveFromISO == IF effectiveFrom = NoDate \/ effectiveFrom = <<>>
                            THEN <<>>
                            ELSE toISOString(effectiveFrom)
    IN  trim(pan) \o <<"|">> \o employer \o <<"|">> \o effectiveFromISO
            \o <<"|">> \o NumberToString(salaryAmount)

(***************************************************************************)
(* Values.  An undefined string is <<>>, an undefined number is 0          *)
(* (the parser writes `x || undefined`), undefined duty days are NoDuty.   *)
(* The department, which is hashed, is a sequence of characters.           *)
(***************************************************************************)
NoDuty == <<0, 0, 0, 0>>

FileNames == {"march.xlsx", "april.xlsx"}

\* A worksheet row as processWorksheet reads it: the identifier and account
\* candidates of lines 282-320, the fields of lines 361-426, whether the row
\* is skipped as a header (lines 258-280) and which extraction step raises.
SheetRow(headerLike, pan, account, raises, name, position, department, duty, rate, gross, tax, net) ==
    [headerLike |-> headerLike, pan |-> pan, accountNumber |-> account,
     raises |-> raises, name |-> name, position |-> position,
     department |-> department, dutyDays |-> duty, rate |-> rate,
     grossAmount |-> gross, taxDeduction |-> tax, netSalary |-> net]

ICU == <<"I", "C", "U">>

OPD == <<"O", "P", "D">>

SheetRows ==
    { SheetRow(FALSE, <<"5">>, Run(13), "none", <<"R", "a", "m">>, <<"N", "u", "r", "s", "e">>, ICU, <<10, 0, 0, 10>>,
               Num(500), Num(5000), Num(50), Num(4950)),
      SheetRow(FALSE, <<"5">>, <<>>, "none", <<"R", "a", "m", " ", "B">>, <<>>, OPD, NoDuty, 0, 0, 0, Num(6000)),
      SheetRow(FALSE, Run(9), <<>>, "none", <<"H", "a", "r", "i">>, <<"D", "o", "c", "t", "o", "r">>, ICU, NoDuty, Num(700), 0, 0, Num(4950)),
      SheetRow(FALSE, Run(21), <<>>, "none", <<"G", "i", "t", "a">>, <<>>, <<>>, NoDuty, 0, 0, 0, Num(3000)),
      SheetRow(FALSE, <<>>, <<>>, "none", <<>>, <<>>, <<>>, NoDuty, 0, 0, 0, 0),
      SheetRow(TRUE, <<>>, <<>>, "none", <<>>, <<>>, <<>>, NoDuty, 0, 0, 0, 0),
      SheetRow(FALSE, <<"5">>, <<>>, "field", <<>>, <<>>, <<>>, NoDuty, 0, 0, 0, 0),
      SheetRow(FALSE, <<"5">>, <<>>, "identifier", <<>>, <<>>, <<>>, NoDuty, 0, 0, 0, 0) }

\* lines 324-329: the identifier of a row
identifierOf(r) ==
    LET identifier == normalizePAN(r.pan)
    IN  IF identifier = <<>> /\ r.accountNumber # <<>> /\ Len(r.accountNumber) >= 10
        THEN r.accountNumber
        ELSE identifier

\* line 347
isValidAccount(identifier) == DigitsBetween(identifier, 10, 20)

\* lines 428-450: the ParsedRow pushed for a row
ParsedRow(r) ==
    LET identifier == identifierOf(r)
    IN  [pan |-> identifier, name |-> r.name, position |-> r.position,
         department |-> r.department, accountNumber |-> r.accountNumber,
         dutyDays |-> r.dutyDays, rate |-> r.rate, grossAmount |-> r.grossAmount,
         taxDeduction |-> r.taxDeduction, netSalary |-> r.netSalary,
         rowHash |-> computeRowHash(identifier, r.department, NoDate, r.netSalary)]

ParseError(n) == [row |-> n, text |-> "Parse error"]

NoWorksheet == [row |-> 0, text |-> "No worksheet found"]

NewResult(filename) ==
    [filename |-> filename, rowsRead |-> 0, inserted |-> 0, skipped |-> 0, errors |-> <<>>]

(***************************************************************************)
(* The record store.  insertRows hands it one updateOne per row, lines     *)
(* 477-506: filter {pan}, $set of the mutable fields, $setOnInsert of the  *)
(* identity fields, upsert.                                                *)
(***************************************************************************)
updateOneOp(row, filename, t) ==
    [filter |-> row.pan,
     set |-> [dutyDays |-> row.dutyDays, rate |-> row.rate,
              grossAmount |-> row.grossAmount, taxDeduction |-> row.taxDeduction,
              netSalary |-> row.netSalary, rowHash |-> row.rowHash,
              source |-> filename, uploadedAt |-> t],
     setOnInsert |-> [name |-> row.name, position |-> row.position,
                      department |-> row.department,
                      accountNumber |-> row.accountNumber]]

\* rows.map(...), one synchronous pass: its operations carry one clock reading
bulkOps(rs, filename, t) == [i \in 1..Len(rs) |-> updateOneOp(rs[i], filename, t)]

\* $set of one field: an undefined value is written as absent, or dropped
\* from the update when the store layer omits undefined keys
SetValue(old, new, undefined) ==
    IF omitUndefined /\ new = undefined THEN old ELSE new

\* the document an upsert inserts
InsertedDoc(op) ==
    [name |-> op.setOnInsert.name, position |-> op.setOnInsert.position,
     department |-> op.setOnInsert.department,
     accountNumber |-> op.setOnInsert.accountNumber,
     dutyDays |-> op.set.dutyDays, rate |-> op.set.rate,
     grossAmount |-> op.set.grossAmount, taxDeduction |-> op.set.taxDeduction,
     netSalary |-> op.set.netSalary, rowHash |-> op.set.rowHash,
     source |-> op.set.source, uploadedAt |-> op.set.uploadedAt]

\* the document an update of a matched document leaves
UpdatedDoc(doc, op) ==
    [name |-> doc.name, position |-> doc.position,
     department |-> doc.department, accountNumber |-> doc.accountNumber,
     dutyDays |-> SetValue(doc.dutyDays, op.set.dutyDays, NoDuty),
     rate |-> SetValue(doc.rate, op.set.rate, 0),
     grossAmount |-> SetValue(doc.grossAmount, op.set.grossAmount, 0),
     taxDeduction |-> SetValue(doc.taxDeduction, op.set.taxDeduction, 0),
     netSalary |-> op.set.netSalary, rowHash |-> op.set.rowHash,
     source |-> op.set.source, uploadedAt |-> op.set.uploadedAt]

Put(store, key, doc) ==
    [k \in DOMAIN store \cup {key} |-> IF k = key THEN doc ELSE store[k]]

\* one updateOne with upsert: the store, upsertedCount and modifiedCount after it
ApplyOne(acc, op) ==
    IF op.filter \in DOMAIN acc.store
    THEN LET doc == UpdatedDoc(acc.store[op.filter], op)
         IN  [store |-> Put(acc.store, op.filter, doc),
              upsertedCount |-> acc.upsertedCount,
              modifiedCount |-> acc.modifiedCount
                                + (IF doc = acc.store[op.filter] THEN 0 ELSE 1)]
    ELSE [store |-> Put(acc.store, op.filter, InsertedDoc(op)),
          upsertedCount |-> acc.upsertedCount + 1,
          modifiedCount |-> acc.modifiedCount]

\* the operations ops[order[1]], ops[order[2]], ... applied one after another
RECURSIVE ApplyOps(_, _, _)
ApplyOps(acc, ops, order) ==
    IF order = <<>> THEN acc
    ELSE ApplyOps(ApplyOne(acc, ops[Head(order)]), ops, Tail(order))

\* bulkWrite: the store and the counts after the given operations ran
bulkWrite(store, ops, order) ==
    ApplyOps([store |-> store, upsertedCount |-> 0, modifiedCount |-> 0], ops, order)

\* every order in which n operations, or the first k of them, may run
Orders(n, k) ==
    { SubSeq(p, 1, k) : p \in { f \in [1..n -> 1..n] : \A i, j \in 1..n : f[i] = f[j] => i = j } }

FileOrder(n) == [i \in 1..n |-> i]

(***************************************************************************)
(* The person store.  insertRows, lines 521-543: one findOneAndUpdate with *)
(* upsert per distinct identifier, from the first row that carries it.     *)
(***************************************************************************)
RECURSIVE uniquePans(_, _)
uniquePans(rs, seen) ==
    IF rs = <<>> THEN <<>>
    ELSE IF Head(rs).pan \in seen THEN uniquePans(Tail(rs), seen)
    ELSE <<Head(rs).pan>> \o uniquePans(Tail(rs), seen \cup {Head(rs).pan})

\* rowData taken from the last row that carries the identifier
rowData_last(rs, pan) == rs[CHOOSE i \in 1..Len(rs) : rs[i].pan = pan /\ \A j \in (i + 1)..Len(rs) : rs[j].pan # pan]

\* rows.find((r) => r.pan === pan)
rowData(rs, pan) == rs[CHOOSE i \in 1..Len(rs) : rs[i].pan = pan /\ \A j \in 1..(i - 1) : rs[j].pan # pan]

NoPerson == [name |-> <<>>, position |-> <<>>, department |-> <<>>]

\* findOneAndUpdate({pan}, {$setOnInsert, $set: updateFields}, {upsert: true})
upsertPerson(store, rs, pan) ==
    LET r == rowData(rs, pan)
        old == IF pan \in DOMAIN store THEN store[pan] ELSE NoPerson
    IN  Put(store, pan,
            [name |-> IF r.name # <<>> THEN r.name ELSE old.name,
             position |-> IF r.position # <<>> THEN r.position ELSE old.position,
             department |-> IF r.department # <<>> THEN r.department ELSE old.department])

RECURSIVE upsertPersons(_, _, _)
upsertPersons(store, rs, pans) ==
    IF pans = <<>> THEN store
    ELSE upsertPersons(upsertPerson(store, rs, Head(pans)), rs, Tail(pans))

(***************************************************************************)
(* uploadFiles, lines 79-108.                                              *)
(***************************************************************************)
NoResponse == [status |-> 0, filesProcessed |-> 0]

Failed(status) == [status |-> status, filesProcessed |-> 0]

\* the summary of lines 95-103, without its totals and per-file list
Summary(n) == [status |-> 200, filesProcessed |-> n]

NoWrite == [done |-> FALSE, failed |-> FALSE, ops |-> <<>>, applied |-> 0, duplicates |-> 0]

\* no call of the row callback, of findColumns or of computeRowHash is under way
IdleRow == rowIn = <<>> /\ rowRes = <<>> /\ rowDone = {}

IdleSheet == sheetIn = <<>> /\ sheetRes = <<>>

IdleHash == hashIn = <<>> /\ hashRes = <<>>

IdleAuth ==
    /\ RefreshToken = <<>>
    /\ refreshReq = <<>>
    /\ authNow = 0
    /\ issued = 0
    /\ logins = 0
    /\ ticks = 0
    /\ rotations = {}

IdleIngest == ingestIn = <<>> /\ ingestRes = <<>>

IdleCell == cellIn = <<>> /\ cellRes = <<>>

IdleText == textIn = <<>> /\ textRes = <<>> /\ textDone = {}

InitUpload ==
    /\ SalaryRecord = <<>>
    /\ Person = <<>>
    /\ omitUndefined \in BOOLEAN
    /\ now = 0
    /\ pc = "idle"
    /\ fileCount = 0
    /\ results = 0
    /\ result = NewResult("")
    /\ rows = <<>>
    /\ visited = 0
    /\ uploaded = 0
    /\ updated = 0
    /\ response = NoResponse
    /\ write = NoWrite

\* the locals of a request are gone once its response is sent
EndRequest(r) ==
    /\ pc' = "idle"
    /\ response' = r
    /\ results' = 0
    /\ result' = NewResult("")
    /\ rows' = <<>>
    /\ updated' = 0
    /\ write' = NoWrite

\* the catch of uploadFiles, lines 104-107: the request ends with status 500
Abort == EndRequest(Failed(500))

\* the locals of processExcelFile are gone once it returned
NextFile(r) ==
    /\ pc' = "load"
    /\ results' = results + 1
    /\ result' = NewResult("")
    /\ rows' = <<>>
    /\ updated' = 0
    /\ write' = NoWrite
    /\ UNCHANGED response

\* processExcelFile returned r: results.push(result), then the next file, or
\* the summary after the last one (lines 90-103)
Finish(r) ==
    IF results + 1 = fileCount
    THEN EndRequest(Summary(results + 1))
    ELSE NextFile(r)

\* a request with n files arrives
UploadFiles(n) ==
    /\ pc = "idle"
    /\ uploaded + n <= MaxFiles
    /\ uploaded' = uploaded + n
    /\ fileCount' = n
    /\ IF n = 0
       THEN /\ pc' = "idle"
            /\ response' = Failed(400)
       ELSE /\ pc' = "load"
            /\ response' = NoResponse
    /\ UNCHANGED <<helperVars, storeVars, results, result, rows, visited, updated, write>>

\* processExcelFile, lines 170-187: the workbook of the next file is loaded
LoadWorkbook(filename, kind) ==
    /\ pc = "load"
    /\ CASE kind = "unreadable" ->
              \* workbook.xlsx.load rejects
              Abort
         [] kind = "empty" ->
              Finish([NewResult(filename) EXCEPT !.errors = <<NoWorksheet>>])
         [] kind = "sheets" ->
              /\ result' = NewResult(filename)
              /\ pc' = "rows"
              /\ UNCHANGED <<results, response, rows, updated, write>>
    /\ UNCHANGED <<helperVars, storeVars, fileCount, visited, uploaded>>

\* processWorksheet, the callback of worksheet.eachRow, lines 256-455, called
\* for the row r that stands at number rowNumber of its worksheet
ParseRow(r, rowNumber) ==
    /\ pc = "rows"
    /\ visited < MaxRows
    /\ visited' = visited + 1
    /\ LET identifier == identifierOf(r)
           Visited == UNCHANGED <<pc, response, results, updated, write>>
       IN  IF r.headerLike
           THEN Visited /\ UNCHANGED <<result, rows>>
           ELSE IF r.raises = "identifier"
           THEN \* lines 282-329 stand outside the try
                Abort
           ELSE IF identifier = <<>>
           THEN Visited /\ UNCHANGED <<result, rows>>
           ELSE IF ~validatePANFlexible(identifier) /\ ~isValidAccount(identifier)
           THEN /\ Visited
                /\ result' = [result EXCEPT !.rowsRead = @ + 1, !.skipped = @ + 1]
                /\ UNCHANGED rows
           ELSE IF r.raises = "field"
           THEN /\ Visited
                /\ result' = [result EXCEPT !.rowsRead = @ + 1, !.skipped = @ + 1,
                                            !.errors = Append(@, ParseError(rowNumber))]
                /\ UNCHANGED rows
           ELSE /\ Visited
                /\ result' = [result EXCEPT !.rowsRead = @ + 1]
                /\ rows' = Append(rows, ParsedRow(r))
    /\ UNCHANGED <<helperVars, storeVars, fileCount, uploaded>>

\* insertRows, line 473: nothing to write
InsertNoRows ==
    /\ pc = "rows"
    /\ rows = <<>>
    /\ Finish(result)
    /\ UNCHANGED <<helperVars, storeVars, fileCount, visited, uploaded>>

\* history: how many rows of the batch carry a row hash that is stored already
Duplicates(store, rs) ==
    Cardinality({i \in 1..Len(rs) : \E p \in DOMAIN store : store[p].rowHash = rs[i].rowHash})

\* insertRows, lines 477-513: the bulk write returns
BulkWriteReturns(t, order) ==
    /\ pc = "rows"
    /\ rows # <<>>
    /\ LET ops == bulkOps(rows, result.filename, t)
           bulkResult == bulkWrite(SalaryRecord, ops, order)
       IN  /\ SalaryRecord' = bulkResult.store
           /\ updated' = bulkResult.modifiedCount
           /\ result' = [result EXCEPT
                   !.inserted = bulkResult.upsertedCount,
                   !.skipped = Len(rows) - bulkResult.upsertedCount - bulkResult.modifiedCount]
           /\ write' = [done |-> TRUE, failed |-> FALSE, ops |-> ops, applied |-> Len(order),
                        duplicates |-> Duplicates(SalaryRecord, rows)]
    /\ now' = t
    /\ pc' = "persons"
    /\ UNCHANGED <<helperVars, Person, omitUndefined, fileCount, results, rows,
                   visited, uploaded, response>>

\* insertRows, lines 514-519: the bulk write throws after the operations of
\* `order` ran; the error carries upsertedCount or not
BulkWriteThrows(t, order, hasCount) ==
    /\ pc = "rows"
    /\ rows # <<>>
    /\ LET ops == bulkOps(rows, result.filename, t)
           bulkResult == bulkWrite(SalaryRecord, ops, order)
           inserted == IF hasCount THEN bulkResult.upsertedCount ELSE result.inserted
       IN  /\ SalaryRecord' = bulkResult.store
           /\ updated' = bulkResult.modifiedCount
           /\ result' = [result EXCEPT
                   !.inserted = inserted,
                   !.skipped = @ + Len(rows) - inserted]
           /\ write' = [done |-> TRUE, failed |-> TRUE, ops |-> ops, applied |-> Len(order),
                        duplicates |-> Duplicates(SalaryRecord, rows)]
    /\ now' = t
    /\ pc' = "persons"
    /\ UNCHANGED <<helperVars, Person, omitUndefined, fileCount, results, rows,
                   visited, uploaded, response>>

\* insertRows, lines 521-563: every person upsert succeeds
UpsertPersons ==
    /\ pc = "persons"
    /\ Person' = upsertPersons(Person, rows, uniquePans(rows, {}))
    /\ Finish(result)
    /\ UNCHANGED <<helperVars, SalaryRecord, omitUndefined, now, fileCount, visited, uploaded>>

\* insertRows, lines 523-543: the k-th person upsert rejects
UpsertPersonThrows(k) ==
    /\ pc = "persons"
    /\ k \in 1..Len(uniquePans(rows, {}))
    /\ Person' = upsertPersons(Person, rows, SubSeq(uniquePans(rows, {}), 1, k - 1))
    /\ Abort
    /\ UNCHANGED <<helperVars, SalaryRecord, omitUndefined, now, fileCount, visited, uploaded>>

\* the clock has moved on since it was last read, or not
Clock == {t \in now..(now + 1) : t <= MaxClock}

NextUpload ==
    \/ \E n \in 0..MaxFiles : UploadFiles(n)
    \/ \E f \in FileNames, kind \in {"unreadable", "empty", "sheets"} : LoadWorkbook(f, kind)
    \/ \E r \in SheetRows, n \in 1..MaxRowNumber : ParseRow(r, n)
    \/ InsertNoRows
    \/ \E t \in Clock, order \in Orders(Len(rows), Len(rows)) : BulkWriteReturns(t, order)
    \/ \E t \in Clock, k \in 0..Len(rows), hasCount \in BOOLEAN :
           \E order \in Orders(Len(rows), k) : BulkWriteThrows(t, order, hasCount)
    \/ UpsertPersons
    \/ \E k \in 1..Len(rows) : UpsertPersonThrows(k)

IdlePAN == panIn = <<>> /\ panRes = NoPanRes /\ panDone = {}

Init ==
    /\ IdleText
    /\ IdleCell
    /\ IdleIngest
    /\ IdleAuth
    /\ InitUpload
    /\ IdlePAN
    /\ IdleRow
    /\ IdleSheet
    /\ IdleHash

Spec == Init /\ [][NextUpload]_vars

(***************************************************************************)
(* The inputs of the identifier helpers: an affix, a run of zeros, a       *)
(* separator, a run of digits "1234567890123...", an affix.                *)
(***************************************************************************)
Affixes == {<<>>, <<" ">>, <<"a">>}

Separators == {<<>>, <<"-">>, <<" ">>}

\* values the upload pipeline hands to the helpers as they stand in a cell
CellValues == {<<"5">>, <<"5", " ">>, <<"4", "2", ".", "0">>}

PanInputs ==
    { pre \o Zeros(z) \o mid \o Run(n) \o suf :
        pre \in Affixes, z \in 0..MaxZeros, mid \in Separators,
        n \in 0..MaxDigits, suf \in Affixes } \cup CellValues

InitPAN ==
    /\ panIn \in PanInputs
    /\ panRes = NoPanRes
    /\ panDone = {}
    /\ IdleRow
    /\ IdleSheet
    /\ IdleHash
    /\ IdleText
    /\ IdleCell
    /\ IdleIngest
    /\ IdleAuth
    /\ InitUpload
    /\ omitUndefined = FALSE

\* normalizePAN(x)
Normalize ==
    /\ "norm" \notin panDone
    /\ panRes' = [panRes EXCEPT !.norm = normalizePAN(panIn)]
    /\ panDone' = panDone \cup {"norm"}
    /\ UNCHANGED <<panIn, rowVars, sheetVars, hashVars, storeVars, requestVars, historyVars, textVars, cellVars, ingestVars, authVars>>

\* normalizePAN(normalizePAN(x))
Renormalize ==
    /\ "norm" \in panDone
    /\ "norm2" \notin panDone
    /\ panRes' = [panRes EXCEPT !.norm2 = normalizePAN(panRes.norm)]
    /\ panDone' = panDone \cup {"norm2"}
    /\ UNCHANGED <<panIn, rowVars, sheetVars, hashVars, storeVars, requestVars, historyVars, textVars, cellVars, ingestVars, authVars>>

\* validatePAN(x)
ValidateStrict ==
    /\ "strict" \notin panDone
    /\ panRes' = [panRes EXCEPT !.strict = validatePAN(panIn)]
    /\ panDone' = panDone \cup {"strict"}
    /\ UNCHANGED <<panIn, rowVars, sheetVars, hashVars, storeVars, requestVars, historyVars, textVars, cellVars, ingestVars, authVars>>

\* validatePANFlexible(x)
ValidateFlexible ==
    /\ "flex" \notin panDone
    /\ panRes' = [panRes EXCEPT !.flex = validatePANFlexible(panIn)]
    /\ panDone' = panDone \cup {"flex"}
    /\ UNCHANGED <<panIn, rowVars, sheetVars, hashVars, storeVars, requestVars, historyVars, textVars, cellVars, ingestVars, authVars>>

NextPAN ==
    \/ Normalize
    \/ Renormalize
    \/ ValidateStrict
    \/ ValidateFlexible

SpecPAN == InitPAN /\ [][NextPAN]_vars

(***************************************************************************)
(* processWorksheet, the row callback on the cells of a row.  A row is the *)
(* sequence of its cells' texts, <<>> for an empty cell; a column of the   *)
(* mapping that is undefined is 0.                                         *)
(***************************************************************************)
\* getCellValue of a cell that holds text, lines 565-614
getCellValue(row, colIndex) ==
    IF colIndex = 0 \/ colIndex > Len(row) THEN <<>> ELSE trim(row[colIndex])

\* the columns row.eachCell({ includeEmpty: false }) visits, in order
NonEmptyCols(row) == SelectSeq([c \in 1..Len(row) |-> c], LAMBDA c : row[c] # <<>>)

\* lines 293-304: the scan for an identifier over the cells at cols
RECURSIVE scanPan(_, _, _)
scanPan(panClean, row, cols) ==
    IF cols = <<>> THEN panClean
    ELSE LET cellVal == StripNonDigits(getCellValue(row, Head(cols)))
             found == IF panClean # <<>> /\ Len(panClean) >= 1 /\ Len(panClean) <= 17
                      THEN panClean
                      ELSE IF Len(cellVal) = 9 THEN cellVal
                      ELSE IF panClean = <<>> /\ Len(cellVal) >= 1 /\ Len(cellVal) <= 17
                      THEN cellVal
                      ELSE panClean
         IN  scanPan(found, row, Tail(cols))

\* candidatesOf with the swap taken from 13 digits on
candidatesOf_swap13(row, mapping) ==
    LET panRaw == getCellValue(row, mapping.panCol)
        accountRaw == getCellValue(row, mapping.accountCol)
        mapped == StripNonDigits(panRaw)
        accountClean == StripNonDigits(accountRaw)
        panClean == IF mapped = <<>> \/ Len(mapped) > 17
                    THEN scanPan(mapped, row, NonEmptyCols(row))
                    ELSE mapped
    IN  IF Len(panClean) >= 13 /\ Len(accountClean) <= 13 /\ Len(accountClean) > 0
        THEN [panClean |-> panClean, pan |-> accountClean, accountNumber |-> panClean]
        ELSE IF panClean = <<>> /\ accountClean # <<>>
        THEN [panClean |-> panClean, pan |-> accountClean, accountNumber |-> accountClean]
        ELSE [panClean |-> panClean, pan |-> panClean, accountNumber |-> accountClean]

\* lines 282-320: the identifier and account candidates of a row
candidatesOf(row, mapping) ==
    LET panRaw == getCellValue(row, mapping.panCol)
        accountRaw == getCellValue(row, mapping.accountCol)
        mapped == StripNonDigits(panRaw)
        accountClean == StripNonDigits(accountRaw)
        panClean == IF mapped = <<>> \/ Len(mapped) > 17
                    THEN scanPan(mapped, row, NonEmptyCols(row))
                    ELSE mapped
    IN  IF Len(panClean) > 13 /\ Len(accountClean) <= 13 /\ Len(accountClean) > 0
        THEN [panClean |-> panClean, pan |-> accountClean, accountNumber |-> panClean]
        ELSE IF panClean = <<>> /\ accountClean # <<>>
        THEN [panClean |-> panClean, pan |-> accountClean, accountNumber |-> accountClean]
        ELSE [panClean |-> panClean, pan |-> panClean, accountNumber |-> accountClean]

\* replace(/[^0-9.-]/g, '')
StripNonNumeric(s) == SelectSeq(s, LAMBDA c : IsDigit(c) \/ c = "." \/ c = "-")

\* the longest prefix of s made of digits
RECURSIVE DigitPrefix(_)
DigitPrefix(s) ==
    IF s = <<>> \/ ~IsDigit(Head(s)) THEN <<>>
    ELSE <<Head(s)>> \o DigitPrefix(Tail(s))

DigitValue(c) == (CHOOSE i \in 1..10 : DigitStr[i] = c) - 1

RECURSIVE StringToNat(_)
StringToNat(s) ==
    IF s = <<>> THEN 0
    ELSE 10 * StringToNat(SubSeq(s, 1, Len(s) - 1)) + DigitValue(s[Len(s)])

\* s without its leading "0" characters
RECURSIVE DropLeadingZeros(_)
DropLeadingZeros(s) ==
    IF s # <<>> /\ Head(s) = "0" THEN DropLeadingZeros(Tail(s)) ELSE s

\* what a number of more than 7 integer digits is held as: no amount the code
\* accepts is that large (line 373)
TooLarge == Num(10000000)

\* parseFloat of a string of digits, "." and "-": an optional sign, digits, an
\* optional "." and digits; NaN when there is no digit
parseFloat(s) ==
    LET negative == s # <<>> /\ Head(s) = "-"
        unsigned == IF negative THEN Tail(s) ELSE s
        whole == DigitPrefix(unsigned)
        rest == SubSeq(unsigned, Len(whole) + 1, Len(unsigned))
        fraction == IF rest # <<>> /\ Head(rest) = "." THEN DigitPrefix(Tail(rest)) ELSE <<>>
        places == SubSeq(fraction \o Zeros(FractionDigits), 1, FractionDigits)
        magnitude == IF Len(DropLeadingZeros(whole)) > 7 THEN TooLarge
                     ELSE Num(StringToNat(whole)) + StringToNat(places)
    IN  IF whole = <<>> /\ fraction = <<>> THEN NaN
        ELSE IF negative THEN 0 - magnitude ELSE magnitude

\* parseAmount without the replace that drops the thousands separators
parseAmount_noStrip(str) ==
    parseFloat(IF str = <<>> THEN <<"0">> ELSE str)

\* parseFloat(str.replace(/[^0-9.-]/g, '') || '0')
parseAmount(str) ==
    LET cleaned == StripNonNumeric(str)
    IN  parseFloat(IF cleaned = <<>> THEN <<"0">> ELSE cleaned)

\* lines 369-377: the scan for the largest plausible amount over the cells at cols
RECURSIVE scanSalary(_, _, _)
scanSalary(best, row, cols) ==
    IF cols = <<>> THEN best
    ELSE LET cellVal == StripNonNumeric(getCellValue(row, Head(cols)))
             numVal == parseFloat(IF cellVal = <<>> THEN <<"0">> ELSE cellVal)
             next == IF /\ numVal # NaN
                        /\ numVal > Num(100)
                        /\ numVal < Num(10000000)
                        /\ Len(cellVal) # 9
                        /\ numVal > best.maxSalary
                     THEN [maxSalary |-> numVal, salaryStr |-> cellVal]
                     ELSE best
         IN  scanSalary(next, row, Tail(cols))

\* netSalaryOf without the || 0 of line 380
netSalaryOf_nan(row, mapping) ==
    LET netSalaryStr == getCellValue(row, mapping.netSalaryCol)
        grossStr == getCellValue(row, mapping.grossCol)
        mapped == IF netSalaryStr # <<>> THEN netSalaryStr ELSE grossStr
        value == parseAmount(mapped)
        salaryStr == IF mapped = <<>> \/ (value # NaN /\ value <= 0)
                     THEN scanSalary([maxSalary |-> 0, salaryStr |-> mapped],
                                     row, NonEmptyCols(row)).salaryStr
                     ELSE mapped
        parsed == parseAmount(salaryStr)
    IN  parsed

\* lines 361-380: netSalary of a row
netSalaryOf(row, mapping) ==
    LET netSalaryStr == getCellValue(row, mapping.netSalaryCol)
        grossStr == getCellValue(row, mapping.grossCol)
        mapped == IF netSalaryStr # <<>> THEN netSalaryStr ELSE grossStr
        value == parseAmount(mapped)
        salaryStr == IF mapped = <<>> \/ (value # NaN /\ value <= 0)
                     THEN scanSalary([maxSalary |-> 0, salaryStr |-> mapped],
                                     row, NonEmptyCols(row)).salaryStr
                     ELSE mapped
        parsed == parseAmount(salaryStr)
    IN  IF parsed = NaN THEN 0 ELSE parsed

(***************************************************************************)
(* The rows handed to the row callback: a free cell (a serial number or a  *)
(* name), the identifier cell, the account cell, the net cell and the      *)
(* gross cell, under every mapping that maps these columns or not.         *)
(***************************************************************************)
FreeCells == {<<>>, <<"7">>, <<"R", "a", "m">>}

PanCells == {<<>>, <<"1", "2">>, Run(9), Run(10), Run(13), Run(14), Run(18)}

AccountCells == {<<>>, Run(9), Run(13)}

NetCells == {<<>>, <<"0">>, <<"-">>, <<"-", "5", "0", "0">>, <<"4", "9", "5", "0">>, <<"1", "2", "3", "4", "5", "6", ".", "7", "8">>}

GrossCells == {<<>>, <<"5", "0">>, <<"5", "0", "0", "0">>}

RowInputs ==
    { [cells |-> <<free, pan, account, net, gross>>,
       mapping |-> [panCol |-> panCol, accountCol |-> accountCol,
                    netSalaryCol |-> netSalaryCol, grossCol |-> grossCol]] :
        free \in FreeCells, pan \in PanCells, account \in AccountCells,
        net \in NetCells, gross \in GrossCells,
        panCol \in {0, 2}, accountCol \in {0, 3},
        netSalaryCol \in {0, 4}, grossCol \in {0, 5} }

NoRowRes ==
    [panClean |-> <<>>, pan |-> <<>>, accountNumber |-> <<>>, identifier |-> <<>>, outcome |-> "",
     netSalary |-> 0, emitted |-> FALSE]

InitRow ==
    /\ rowIn \in RowInputs
    /\ rowRes = NoRowRes
    /\ rowDone = {}
    /\ IdlePAN
    /\ IdleSheet
    /\ IdleHash
    /\ IdleText
    /\ IdleCell
    /\ IdleIngest
    /\ IdleAuth
    /\ InitUpload
    /\ omitUndefined = FALSE

\* lines 282-354: the identifier of the row, and whether the row goes on
ExtractIdentifier ==
    /\ rowDone = {}
    /\ LET candidates == candidatesOf(rowIn.cells, rowIn.mapping)
           identifier == identifierOf(candidates)
       IN  rowRes' = [rowRes EXCEPT
                !.panClean = candidates.panClean,
                !.pan = candidates.pan,
                !.accountNumber = candidates.accountNumber,
                !.identifier = identifier,
                !.outcome = IF identifier = <<>> THEN "noIdentifier"
                            ELSE IF ~validatePANFlexible(identifier)
                                    /\ ~isValidAccount(identifier)
                            THEN "invalid"
                            ELSE "valid"]
    /\ rowDone' = {"identifier"}
    /\ UNCHANGED <<rowIn, panVars, sheetVars, hashVars, storeVars, requestVars, historyVars, textVars, cellVars, ingestVars, authVars>>

\* lines 361-380: the amount of a row that went on
ExtractAmount ==
    /\ rowDone = {"identifier"}
    /\ rowRes.outcome = "valid"
    /\ rowRes' = [rowRes EXCEPT !.netSalary = netSalaryOf(rowIn.cells, rowIn.mapping)]
    /\ rowDone' = {"identifier", "amount"}
    /\ UNCHANGED <<rowIn, panVars, sheetVars, hashVars, storeVars, requestVars, historyVars, textVars, cellVars, ingestVars, authVars>>

\* lines 428-450: rows.push
EmitRow ==
    /\ rowDone = {"identifier", "amount"}
    /\ rowRes' = [rowRes EXCEPT !.emitted = TRUE]
    /\ rowDone' = {"identifier", "amount", "emit"}
    /\ UNCHANGED <<rowIn, panVars, sheetVars, hashVars, storeVars, requestVars, historyVars, textVars, cellVars, ingestVars, authVars>>

NextRow ==
    \/ ExtractIdentifier
    \/ ExtractAmount
    \/ EmitRow

SpecRow == InitRow /\ [][NextRow]_vars

(***************************************************************************)
(* Column detection (uploadController.ts, lines 59-168 and 216-234).       *)
(* A worksheet is the sequence of its rows, a row the sequence of its      *)
(* cells; a column that was not found is 0, as in the row callback.        *)
(***************************************************************************)
UpperCase ==
    <<"A", "B", "C", "D", "E", "F", "G", "H", "I", "J", "K", "L", "M",
      "N", "O", "P", "Q", "R", "S", "T", "U", "V", "W", "X", "Y", "Z">>

LowerCase ==
    <<"a", "b", "c", "d", "e", "f", "g", "h", "i", "j", "k", "l", "m",
      "n", "o", "p", "q", "r", "s", "t", "u", "v", "w", "x", "y", "z">>

\* the lower-case letter of each upper-case letter
LowerOf ==
    [c \in {UpperCase[k] : k \in 1..Len(UpperCase)} |->
        LowerCase[CHOOSE k \in 1..Len(UpperCase) : UpperCase[k] = c]]

\* String.prototype.toLowerCase
toLowerCase(s) ==
    [i \in 1..Len(s) |-> IF s[i] \in DOMAIN LowerOf THEN LowerOf[s[i]] ELSE s[i]]

\* String.prototype.includes
includes(s, p) ==
    \E i \in 1..(Len(s) - Len(p) + 1) : SubSeq(s, i, i + Len(p) - 1) = p

\* lines 59-76; a character outside ASCII is written as its code point
COLUMN_PATTERNS ==
    [
     pan |-> <<
        <<"p", "a", "n">>,
        <<"u092A", "u093E", "u0928">>,
        <<"k", "f", "g">>,
        <<"k", "f", "g", " ", "g">>,
        <<"k", "f", "g", " ", "g", "+">>,
        <<"k", "f", "g", " ", "g", "+", "=">>,
        <<"k", "f", "g", "g">>,
        <<"p", "a", "n", " ", "n", "o">>,
        <<"p", "a", "n", "n", "o">>,
        <<"p", "a", "n", " ", "n", "u", "m", "b", "e", "r">>,
        <<"u092A", "u093E", "u0928", " ", "u0928", "u0902">>,
        <<"u092A", "u093E", "u0928", " ", "u0928", "u0902", ".">>,
        <<"k", "f", "g", " ", "g", "+", "+", "=">>,
        <<"k", "f", "g", "g", "+">>,
        <<"k", "f", "g", "g", "+", "=">>>>,
     name |-> <<
        <<"n", "a", "m", "e">>,
        <<"g", "f", "d", "y">>,
        <<"g", "f", "d", "y", "/">>,
        <<"u0928", "u093E", "u092E">>,
        <<"e", "m", "p", "l", "o", "y", "e", "e">>,
        <<"s", "d", "{", "r", "f", "/", "L">>,
        <<"u0915", "u0930", "u094D", "u092E", "u091A", "u093E", "u0930", "u0940">>>>,
     position |-> <<
        <<"p", "o", "s", "i", "t", "i", "o", "n">>,
        <<"k", "b">>,
        <<"u092A", "u0926">>,
        <<"d", "e", "s", "i", "g", "n", "a", "t", "i", "o", "n">>,
        <<"p", "o", "s", "t">>>>,
     department |-> <<
        <<"d", "e", "p", "a", "r", "t", "m", "e", "n", "t">>,
        <<"d", "e", "p", "t">>,
        <<"w", "a", "r", "d">>,
        <<"s", "f", "o">>,
        <<"s", "f", "o", "/", "t">>,
        <<"s", "f", "o", "{", "/", "t">>,
        <<"l", "j", "e", "f", "u">>,
        <<"u0935", "u093F", "u092D", "u093E", "u0917">>,
        <<"s", "f", "o", "{", "/", "t", " ", "l", "j", "e", "f", "u">>,
        <<"s", "}", "l", "k", "m", "o", "t">>>>,
     account |-> <<
        <<"a", "c", "c", "o", "u", "n", "t">>,
        <<"v", "f", "t", "f">>,
        <<"v", "f", "t", "f", " ", "g">>,
        <<"v", "f", "t", "f", " ", "g", "+">>,
        <<"v", "f", "t", "f", " ", "g", "+", "=">>,
        <<"u0916", "u093E", "u0924", "u093E">>,
        <<"a", "/", "c">>,
        <<"b", "a", "n", "k">>,
        <<"u0916", "u093E", "u0924", "u093E", " ", "u0928", "u0902">>>>,
     duty1 |-> <<
        <<">", "f", "j", ")", "f">>,
        <<"e", "f", "b", "l">>,
        <<"e", "f", "b", "|">>,
        <<"s", "f", "l", "t", "{", "s">>,
        <<"u0936", "u094D", "u0930", "u093E", "u0935", "u0923">>,
        <<"u092D", "u093E", "u0926", "u094D", "u0930">>,
        <<"u0915", "u093E", "u0930", "u094D", "u0924", "u093F", "u0915">>,
        <<"s", "h", "r", "a", "w", "a", "n">>,
        <<"b", "h", "a", "d", "r", "a">>,
        <<"k", "a", "r", "t", "i", "k">>,
        <<"m", "o", "n", "t", "h", "1">>>>,
     duty2 |-> <<
        <<"e", "f", "b", "l">>,
        <<"e", "f", "b", "|">>,
        <<"e", "f", "b", "}">>,
        <<"c", "f", "l", "Z", "j", "g">>,
        <<"d", "+", "l", ";", "/">>,
        <<"u092D", "u093E", "u0926", "u094D", "u0930">>,
        <<"u0906", "u0936", "u094D", "u0935", "u093F", "u0928">>,
        <<"u092E", "u0902", "u0938", "u093F", "u0930">>,
        <<"b", "h", "a", "d", "r", "a">>,
        <<"a", "s", "h", "w", "i", "n">>,
        <<"m", "a", "n", "g", "s", "i", "r">>,
        <<"m", "o", "n", "t", "h", "2">>>>,
     duty3 |-> <<
        <<"c", "f", "l", "Z", "j", "g">>,
        <<"k", "f", "}", "i", "f">>,
        <<"d", "f", "3">>,
        <<"u0906", "u0936", "u094D", "u0935", "u093F", "u0928">>,
        <<"u092A", "u094C", "u0937">>,
        <<"u092E", "u093E", "u0918">>,
        <<"a", "s", "h", "w", "i", "n">>,
        <<"p", "o", "u", "s", "h">>,
        <<"m", "a", "g", "h">>,
        <<"m", "o", "n", "t", "h", "3">>>>,
     dutyTotal |-> <<
        <<"h", "D", "d", "f">>,
        <<"h", "D", "d", "f", " ", "l", "b", "g">>,
        <<"u091C", "u092E", "u094D", "u092E", "u093E">>,
        <<"t", "o", "t", "a", "l">>,
        <<"t", "o", "t", "a", "l", " ", "d", "u", "t", "y">>,
        <<"t", "o", "t", "a", "l", " ", "d", "a", "y", "s">>,
        <<"u0915", "u0941", "u0932", " ", "u0926", "u093F", "u0928">>>>,
     rate |-> <<
        <<"b", "/">>,
        <<"u0926", "u0930">>,
        <<"r", "a", "t", "e">>,
        <<"p", "e", "r", " ", "d", "a", "y">>,
        <<"d", "a", "i", "l", "y">>>>,
     gross |-> <<
        <<"k", "f", "p", "g", "]", " ", "/", "s", "d">>,
        <<"/", "s", "d">>,
        <<"u092A", "u093E", "u0909", "u0928", "u0947", " ", "u0930", "u0915", "u092E">>,
        <<"g", "r", "o", "s", "s">>,
        <<"a", "m", "o", "u", "n", "t">>,
        <<"u0930", "u0915", "u092E">>>>,
     tax |-> <<
        <<"k", "f", "l", "/", ">", "l", "d", "s">>,
        <<"k", "f", "l", "/", ">", "l", "d", "s", " ", "s", "/">>,
        <<"u0915", "u0930">>,
        <<"t", "a", "x">>,
        <<"t", "d", "s">>,
        <<"d", "e", "d", "u", "c", "t", "i", "o", "n">>>>,
     netSalary |-> <<
        <<"s", "'", "n", " ", "k", "f", "p", "g", "]">>,
        <<"s", "'", "n", " ", "k", "f", "p", "g", "]">>,
        <<"s", "'", "n">>,
        <<"u0915", "u0941", "u0932", " ", "u092A", "u093E", "u0909", "u0928", "u0947">>,
        <<"n", "e", "t">>,
        <<"n", "e", "t", " ", "s", "a", "l", "a", "r", "y">>,
        <<"u0915", "u0941", "u0932", " ", "u0924", "u0932", "u092C">>>>]

\* the number of rows searched for a header, line 122
HeaderSearchRows == 20

Min(a, b) == IF a <= b THEN a ELSE b

\* lines 124-132: the Map of the non-empty cells of a row, in column order
headersOf(row) ==
    LET cols == SelectSeq([c \in 1..Len(row) |-> c],
                          LAMBDA c : getCellValue(row, c) # <<>>)
    IN  [i \in 1..Len(cols) |-> [col |-> cols[i], value |-> getCellValue(row, cols[i])]]

\* lines 110-118
findColumnByPatterns(headers, patterns) ==
    LET lowered == [i \in 1..Len(patterns) |-> toLowerCase(patterns[i])]
        hits == SelectSeq(headers, LAMBDA h :
                    LET lower == toLowerCase(h.value)
                    IN  \E i \in 1..Len(lowered) : includes(lower, lowered[i]))
    IN  IF hits = <<>> THEN 0 ELSE Head(hits).col

\* lines 122-166: the loop of findColumns from row rowNum to row last
RECURSIVE findColumnsFrom(_, _, _)
findColumnsFrom(worksheet, rowNum, last) ==
    IF rowNum > last THEN <<>>
    ELSE LET headers == headersOf(worksheet[rowNum])
             panCol == findColumnByPatterns(headers, COLUMN_PATTERNS.pan)
             accountCol == findColumnByPatterns(headers, COLUMN_PATTERNS.account)
             netSalaryCol == findColumnByPatterns(headers, COLUMN_PATTERNS.netSalary)
             grossCol == findColumnByPatterns(headers, COLUMN_PATTERNS.gross)
             hasIdentifier == panCol # 0 \/ accountCol # 0
             hasSalary == netSalaryCol # 0 \/ grossCol # 0
         IN  IF hasIdentifier /\ hasSalary
             THEN << [panCol |-> panCol,
                      nameCol |-> findColumnByPatterns(headers, COLUMN_PATTERNS.name),
                      positionCol |-> findColumnByPatterns(headers, COLUMN_PATTERNS.position),
                      departmentCol |-> findColumnByPatterns(headers, COLUMN_PATTERNS.department),
                      accountCol |-> accountCol,
                      duty1Col |-> findColumnByPatterns(headers, COLUMN_PATTERNS.duty1),
                      duty2Col |-> findColumnByPatterns(headers, COLUMN_PATTERNS.duty2),
                      duty3Col |-> findColumnByPatterns(headers, COLUMN_PATTERNS.duty3),
                      dutyTotalCol |-> findColumnByPatterns(headers, COLUMN_PATTERNS.dutyTotal),
                      rateCol |-> findColumnByPatterns(headers, COLUMN_PATTERNS.rate),
                      grossCol |-> grossCol,
                      taxCol |-> findColumnByPatterns(headers, COLUMN_PATTERNS.tax),
                      netSalaryCol |-> netSalaryCol,
                      headerRow |-> rowNum] >>
             ELSE findColumnsFrom(worksheet, rowNum + 1, last)

\* findColumns searching every row of the worksheet
findColumns_wholeSheet(worksheet) == findColumnsFrom(worksheet, 1, Len(worksheet))

\* lines 120-168: the mapping in a one-element sequence, or <<>> for null
findColumns(worksheet) ==
    findColumnsFrom(worksheet, 1, Min(HeaderSearchRows, Len(worksheet)))

\* lines 230-234: the mapping processWorksheet uses when findColumns returns null
FallbackMapping ==
    [panCol |-> 0, nameCol |-> 0, positionCol |-> 0, departmentCol |-> 0,
     accountCol |-> 0, duty1Col |-> 0, duty2Col |-> 0, duty3Col |-> 0,
     dutyTotalCol |-> 0, rateCol |-> 0, grossCol |-> 0, taxCol |-> 0,
     netSalaryCol |-> 0, headerRow |-> 0]

(***************************************************************************)
(* The worksheets handed to findColumns: data rows, with up to two header  *)
(* rows among them, at the top of the sheet or around the end of the       *)
(* search window.                                                          *)
(***************************************************************************)
MaxSheetRows == 22

DataRow == <<<<"1">>, <<"R", "a", "m">>, <<"4", "9", "5", "0">>>>

HeaderRows ==
    { <<<<"P", "A", "N", " ", "N", "o">>, <<"N", "a", "m", "e">>, <<"N", "e", "t", " ", "S", "a", "l", "a", "r", "y">>>>,
      <<<<"A", "c", "c", "o", "u", "n", "t">>, <<"N", "a", "m", "e">>, <<>>>>,
      <<<<>>, <<"T", "o", "t", "a", "l">>, <<"A", "m", "o", "u", "n", "t">>>>,
      <<<<"A", "/", "C">>, <<"B", "h", "a", "d", "r", "a">>, <<"N", "e", "t", " ", "A", "m", "o", "u", "n", "t">>>>,
      <<<<"k", "f", "g", " ", "g", "+", "=">>, <<"g", "f", "d", "y">>, <<"s", "'", "n", " ", "k", "f", "p", "g", "]">>>>,
      <<<<"B", "A", "N", "K">>, <<>>, <<"G", "R", "O", "S", "S">>>> }

HeaderPositions == {1, 2} \cup {r \in 1..MaxSheetRows : r >= MaxSheetRows - 3}

Worksheet(rowCount, p1, h1, p2, h2) ==
    [r \in 1..rowCount |-> IF r = p1 THEN h1 ELSE IF r = p2 THEN h2 ELSE DataRow]

SheetInputs ==
    { Worksheet(rowCount, p1, h1, p2, h2) :
        rowCount \in 1..MaxSheetRows,
        p1 \in HeaderPositions, h1 \in HeaderRows \cup {DataRow},
        p2 \in HeaderPositions, h2 \in HeaderRows \cup {DataRow} }

NoSheetRes == [found |-> <<>>, mapping |-> FallbackMapping, step |-> "start"]

InitColumns ==
    /\ sheetIn \in SheetInputs
    /\ sheetRes = NoSheetRes
    /\ IdlePAN
    /\ IdleRow
    /\ IdleHash
    /\ IdleText
    /\ IdleCell
    /\ IdleIngest
    /\ IdleAuth
    /\ InitUpload
    /\ omitUndefined = FALSE

\* line 226: let mapping = findColumns(worksheet)
FindColumns ==
    /\ sheetRes.step = "start"
    /\ sheetRes' = [sheetRes EXCEPT !.found = findColumns(sheetIn), !.step = "found"]
    /\ UNCHANGED <<sheetIn, panVars, rowVars, hashVars, storeVars, requestVars, historyVars, textVars, cellVars, ingestVars, authVars>>

\* lines 230-234: no mapping was found, the fallback is used
UseFallback ==
    /\ sheetRes.step = "found"
    /\ sheetRes.found = <<>>
    /\ sheetRes' = [sheetRes EXCEPT !.mapping = FallbackMapping, !.step = "mapped"]
    /\ UNCHANGED <<sheetIn, panVars, rowVars, hashVars, storeVars, requestVars, historyVars, textVars, cellVars, ingestVars, authVars>>

\* lines 235-246: the mapping found is used
UseFound ==
    /\ sheetRes.step = "found"
    /\ sheetRes.found # <<>>
    /\ sheetRes' = [sheetRes EXCEPT !.mapping = Head(sheetRes.found), !.step = "mapped"]
    /\ UNCHANGED <<sheetIn, panVars, rowVars, hashVars, storeVars, requestVars, historyVars, textVars, cellVars, ingestVars, authVars>>

NextColumns ==
    \/ FindColumns
    \/ UseFallback
    \/ UseFound

SpecColumns == InitColumns /\ [][NextColumns]_vars

(***************************************************************************)
(* Two calls of computeRowHash whose arguments differ in at most one       *)
(* place.                                                                  *)
(***************************************************************************)
HashPans == {<<"5">>, <<"5", " ">>, <<" ", "5">>, <<"6">>, Run(9)}

HashEmployers == {<<>>, ICU, OPD}

HashDates ==
    {NoDate, <<>>,
     <<"2", "0", "2", "4", "-", "0", "1", "-", "0", "1">>,
     <<"2", "0", "2", "4", "-", "0", "1", "-", "0", "1">> \o MidnightUTC,
     <<"2", "0", "2", "4", "-", "0", "2", "-", "0", "1">>}

HashAmounts == {0, Num(4950), Num(4950) + 50, Num(49500), 0 - Num(500)}

HashArguments ==
    [pan : HashPans, employer : HashEmployers,
     effectiveFrom : HashDates, salaryAmount : HashAmounts]

\* the arguments on which two calls differ
Differing(a, b) == {f \in DOMAIN a : a[f] # b[f]}

HashInputs ==
    UNION { {<<a, b>> : b \in {c \in HashArguments : Cardinality(Differing(a, c)) <= 1}} :
                a \in HashArguments }

InitHash ==
    /\ hashIn \in HashInputs
    /\ hashRes = <<>>
    /\ IdlePAN
    /\ IdleRow
    /\ IdleSheet
    /\ IdleText
    /\ IdleCell
    /\ IdleIngest
    /\ IdleAuth
    /\ InitUpload
    /\ omitUndefined = FALSE

\* the two calls
Hash ==
    /\ hashRes = <<>>
    /\ hashRes' = [i \in 1..2 |->
                      computeRowHash(hashIn[i].pan, hashIn[i].employer,
                                     hashIn[i].effectiveFrom, hashIn[i].salaryAmount)]
    /\ UNCHANGED <<hashIn, panVars, rowVars, sheetVars, storeVars, requestVars, historyVars, textVars, cellVars, ingestVars, authVars>>

NextHash == Hash

SpecHash == InitHash /\ [][NextHash]_vars

(***************************************************************************)
(* Transliteration of the Preeti font (src/src/utils/preetiToUnicode.ts).  *)
(* A character outside printable ASCII is written by its code point,       *)
(* "u0915" for U+0915.                                                     *)
(***************************************************************************)
\* lines 9-135
PREETI_MAP ==
    (<<"S">> :> <<"u0936">>)
    @@ (<<"I">> :> <<"u0937">>)
    @@ (<<"i", "f">> :> <<"u0937", "u093E">>)
    @@ (<<"s">> :> <<"u0938">>)
    @@ (<<"x">> :> <<"u0939">>)
    @@ (<<"Q">> :> <<"u0915", "u094D", "u0937">>)
    @@ (<<"1">> :> <<"u091C", "u094D", "u091E">>)
    @@ (<<"q">> :> <<"u0924", "u094D", "u0930">>)
    @@ (<<"c">> :> <<"u0905">>)
    @@ (<<"c", "f">> :> <<"u0906">>)
    @@ (<<"O">> :> <<"u0907">>)
    @@ (<<"O", "{">> :> <<"u0908">>)
    @@ (<<"p">> :> <<"u0909">>)
    @@ (<<"p", "m">> :> <<"u090A">>)
    @@ (<<"C">> :> <<"u090B">>)
    @@ (<<"P">> :> <<"u090F">>)
    @@ (<<"P", "]">> :> <<"u0910">>)
    @@ (<<"c", "f", "]">> :> <<"u0913">>)
    @@ (<<"c", "f", "}">> :> <<"u0914">>)
    @@ (<<"k">> :> <<"u092A">>)
    @@ (<<"K">> :> <<"u092B">>)
    @@ (<<"a">> :> <<"u092C">>)
    @@ (<<"e">> :> <<"u092D">>)
    @@ (<<"d">> :> <<"u092E">>)
    @@ (<<"t">> :> <<"u0924">>)
    @@ (<<"T">> :> <<"u0925">>)
    @@ (<<"b">> :> <<"u0926">>)
    @@ (<<"w">> :> <<"u0927">>)
    @@ (<<"g">> :> <<"u0928">>)
    @@ (<<"6">> :> <<"u091F">>)
    @@ (<<"7">> :> <<"u0920">>)
    @@ (<<"8">> :> <<"u0921">>)
    @@ (<<"9">> :> <<"u0922">>)
    @@ (<<"0">> :> <<"u0923">>)
    @@ (<<"r">> :> <<"u091A">>)
    @@ (<<"R">> :> <<"u091B">>)
    @@ (<<"h">> :> <<"u091C">>)
    @@ (<<"H">> :> <<"u091D">>)
    @@ (<<"~">> :> <<"u091E">>)
    @@ (<<"i">> :> <<"u092F">>)
    @@ (<<"/">> :> <<"u0930">>)
    @@ (<<"n">> :> <<"u0932">>)
    @@ (<<"j">> :> <<"u0935">>)
    @@ (<<"\\">> :> <<"u094D">>)
    @@ (<<"+">> :> <<"u094D">>)
    @@ (<<"f">> :> <<"u093E">>)
    @@ (<<"F">> :> <<"u0901">>)
    @@ (<<"]">> :> <<"u0947">>)
    @@ (<<"}">> :> <<"u0948">>)
    @@ (<<"[">> :> <<"u0943">>)
    @@ (<<"l">> :> <<"u093F">>)
    @@ (<<"L">> :> <<"u0940">>)
    @@ (<<"u">> :> <<"u0941">>)
    @@ (<<"U">> :> <<"u0942">>)
    @@ (<<"f", "]">> :> <<"u094B">>)
    @@ (<<"f", "}">> :> <<"u094C">>)
    @@ (<<"u00E9">> :> <<"u094D", "u0930">>)
    @@ (<<"|">> :> <<"u094D", "u0930">>)
    @@ (<<"u00AB">> :> <<"u0930", "u0941">>)
    @@ (<<"u00BF">> :> <<"u0930", "u0942">>)
    @@ (<<"u00A4">> :> <<"u0939", "u094D", "u0930">>)
    @@ (<<"u00E5">> :> <<"u0926", "u094D", "u0935">>)
    @@ (<<"u00DD">> :> <<"u091F", "u094D", "u091F">>)
    @@ (<<"u00DF">> :> <<"u091F", "u094D", "u0920">>)
    @@ (<<"u00CE">> :> <<"u0921", "u094D", "u0921">>)
    @@ (<<"u00CF">> :> <<"u0921", "u094D", "u0922">>)
    @@ (<<"u00DE">> :> <<"u0915", "u094D", "u0930">>)
    @@ (<<"u0915", "u094D", "u0930">> :> <<"u0915", "u094D", "u0930">>)
    @@ (<<"u00AA">> :> <<"u0919">>)
    @@ (<<"!">> :> <<"u0967">>)
    @@ (<<"@">> :> <<"u0968">>)
    @@ (<<"#">> :> <<"u0969">>)
    @@ (<<"$">> :> <<"u096A">>)
    @@ (<<"%">> :> <<"u096B">>)
    @@ (<<"^">> :> <<"u096C">>)
    @@ (<<"&">> :> <<"u096D">>)
    @@ (<<"*">> :> <<"u096E">>)
    @@ (<<"(">> :> <<"u096F">>)
    @@ (<<")">> :> <<"u0966">>)
    @@ (<<"=">> :> <<"u0964">>)
    @@ (<<"?">> :> <<"u0930", "u0941">>)
    @@ (<<"_">> :> <<")">>)
    @@ (<<".">> :> <<"u0964">>)
    @@ (<<",">> :> <<",">>)
    @@ (<<";">> :> <<";">>)
    @@ (<<":">> :> <<":">>)
    @@ (<<"D">> :> <<"u0902">>)
    @@ (<<"M">> :> <<"u0903">>)
    @@ (<<"v">> :> <<"u0916">>)
    @@ (<<"V">> :> <<"u0916", "u094D">>)
    @@ (<<"y">> :> <<"u092F">>)
    @@ (<<"Y">> :> <<"u092F", "u094D">>)
    @@ (<<"z">> :> <<"u0936">>)
    @@ (<<"Z">> :> <<"u0936", "u094D">>)
    @@ (<<"N">> :> <<"u0923", "u094D">>)
    @@ (<<"G">> :> <<"u0918">>)
    @@ (<<"W">> :> <<"u0927", "u094D">>)
    @@ (<<"o">> :> <<"u0905">>)
    @@ (<<"m">> :> <<"u0942">>)
    @@ (<<"-">> :> <<"-">>)
    @@ (<<"'">> :> <<"u094D">>)
    @@ (<<"\"">> :> <<"\"">>)
    @@ (<<"u2013">> :> <<"-">>)
    @@ (<<"u2018">> :> <<"u2018">>)
    @@ (<<"u2019">> :> <<"u2019">>)

\* lines 138-203, in the order of the source
SPECIAL_SEQUENCES ==
    << <<<<"c", "f", "}">>, <<"u0914">>>>,
       <<<<"c", "f", "]">>, <<"u0913">>>>,
       <<<<"c", "f">>, <<"u0906">>>>,
       <<<<"O", "{">>, <<"u0908">>>>,
       <<<<"P", "]">>, <<"u0910">>>>,
       <<<<"p", "m">>, <<"u090A">>>>,
       <<<<"f", "}">>, <<"u094C">>>>,
       <<<<"f", "]">>, <<"u094B">>>>,
       <<<<"f">>, <<"u093E">>>>,
       <<<<"Q", "m">>, <<"u0915", "u094D", "u092E">>>>,
       <<<<"Q", "n">>, <<"u0915", "u094D", "u0932">>>>,
       <<<<"Q", "j">>, <<"u0915", "u094D", "u0935">>>>,
       <<<<"S", "b">>, <<"u0916", "u094D", "u092F">>>>,
       <<<<"U", "b">>, <<"u0918", "u094D", "u092F">>>>,
       <<<<"u00AA", "\\">>, <<"u0919", "u094D">>>>,
       <<<<"u00AA", "u094D">>, <<"u0919", "u094D">>>>,
       <<<<"u00A8">>, <<"u0919", "u094D", "u0917">>>>,
       <<<<"u00AA">>, <<"u0919">>>>,
       <<<<"~", "r">>, <<"u091E", "u094D", "u091A">>>>,
       <<<<"~", "h">>, <<"u091E", "u094D", "u091C">>>>,
       <<<<"u00AC">>, <<"u091E", "u094D">>>>,
       <<<<"u00A7">>, <<"u091F", "u094D", "u0920">>>>,
       <<<<"u00B6">>, <<"u0921", "u094D", "u0922">>>>,
       <<<<"u00B7">>, <<"u0926", "u094D", "u0926">>>>,
       <<<<"u00B8">>, <<"u0926", "u094D", "u0927">>>>,
       <<<<"A", "b">>, <<"u0926", "u094D", "u092F">>>>,
       <<<<"A", "d">>, <<"u0926", "u094D", "u092E">>>>,
       <<<<"A", "j">>, <<"u0926", "u094D", "u0935">>>>,
       <<<<"B", "b">>, <<"u0926", "u094D", "u0927", "u094D", "u092F">>>>,
       <<<<"T", "o">>, <<"u0925", "u094D", "u092F">>>>,
       <<<<"u00A1">>, <<"u091C", "u094D", "u091E">>>>,
       <<<<"1">>, <<"u091C", "u094D", "u091E">>>>,
       <<<<"u00B4">>, <<"u091D", "u094D">>>>,
       <<<<"u00B0">>, <<"u0915", "u094D", "u0924">>>>,
       <<<<"u00B1">>, <<"u0915", "u094D", "u0930">>>>,
       <<<<"u00B2">>, <<"u0915", "u094D", "u0937">>>>,
       <<<<"u00B5">>, <<"u0926", "u094D", "u0930">>>>,
       <<<<"u00B9">>, <<"u0936", "u094D", "u0930">>>>,
       <<<<"u00BA">>, <<"u0938", "u094D", "u0930">>>>,
       <<<<"u00BB">>, <<"u0939", "u094D", "u092F">>>>,
       <<<<"u00BC">>, <<"u0939", "u094D", "u0930">>>>,
       <<<<"u00BD">>, <<"u0939", "u094D", "u0935">>>>,
       <<<<"u00BE">>, <<"u0939", "u094D", "u092E">>>>,
       <<<<"u00D8">>, <<"u0930", "u094D">>>>,
       <<<<"{">>, <<"u0948">>>>,
       <<<<"[">>, <<"u0943">>>>,
       <<<<"u00DF">>, <<"u091F", "u094D", "u0920">>>>,
       <<<<"u00CE">>, <<"u0921", "u094D", "u0921">>>>,
       <<<<"u00DE">>, <<"u0915", "u094D", "u0930">>>>,
       <<<<"u00DD">>, <<"u091F", "u094D", "u091F">>>> >>

\* line 206
REPHA_CHAR == "u00D8"

\* the code points U+0900 to U+097F
DevanagariBlock ==
    {"u0900", "u0901", "u0902", "u0903", "u0904", "u0905", "u0906", "u0907",
     "u0908", "u0909", "u090A", "u090B", "u090C", "u090D", "u090E", "u090F",
     "u0910", "u0911", "u0912", "u0913", "u0914", "u0915", "u0916", "u0917",
     "u0918", "u0919", "u091A", "u091B", "u091C", "u091D", "u091E", "u091F",
     "u0920", "u0921", "u0922", "u0923", "u0924", "u0925", "u0926", "u0927",
     "u0928", "u0929", "u092A", "u092B", "u092C", "u092D", "u092E", "u092F",
     "u0930", "u0931", "u0932", "u0933", "u0934", "u0935", "u0936", "u0937",
     "u0938", "u0939", "u093A", "u093B", "u093C", "u093D", "u093E", "u093F",
     "u0940", "u0941", "u0942", "u0943", "u0944", "u0945", "u0946", "u0947",
     "u0948", "u0949", "u094A", "u094B", "u094C", "u094D", "u094E", "u094F",
     "u0950", "u0951", "u0952", "u0953", "u0954", "u0955", "u0956", "u0957",
     "u0958", "u0959", "u095A", "u095B", "u095C", "u095D", "u095E", "u095F",
     "u0960", "u0961", "u0962", "u0963", "u0964", "u0965", "u0966", "u0967",
     "u0968", "u0969", "u096A", "u096B", "u096C", "u096D", "u096E", "u096F",
     "u0970", "u0971", "u0972", "u0973", "u0974", "u0975", "u0976", "u0977",
     "u0978", "u0979", "u097A", "u097B", "u097C", "u097D", "u097E", "u097F"}

\* the code points of the range of line 290, U+0915 to U+0939
DevanagariConsonants ==
    {"u0915", "u0916", "u0917", "u0918", "u0919", "u091A", "u091B", "u091C",
     "u091D", "u091E", "u091F", "u0920", "u0921", "u0922", "u0923", "u0924",
     "u0925", "u0926", "u0927", "u0928", "u0929", "u092A", "u092B", "u092C",
     "u092D", "u092E", "u092F", "u0930", "u0931", "u0932", "u0933", "u0934",
     "u0935", "u0936", "u0937", "u0938", "u0939"}

\* /[\u0900-\u097F]/.test(text)
hasDevanagari(text) == \E i \in 1..Len(text) : text[i] \in DevanagariBlock

\* /[cfgjdknetbwhrls]{2,}/i
ConsonantKeys ==
    {"c", "f", "g", "j", "d", "k", "n", "e", "t", "b", "w", "h", "r", "l", "s",
     "C", "F", "G", "J", "D", "K", "N", "E", "T", "B", "W", "H", "R", "L", "S"}

\* /[f\]}\[luU]/
VowelSignKeys == {"f", "]", "}", "[", "l", "u", "U"}

\* /[!@#$%^&*()]/
NumeralKeys == {"!", "@", "#", "$", "%", "^", "&", "*", "(", ")"}

\* /[QSIGTWPOKL]/
CapitalKeys == {"Q", "S", "I", "G", "T", "W", "P", "O", "K", "L"}

\* lines 220-226: which of the five patterns match the text
preetiPatterns(text) ==
    {k \in 1..5 :
        IF k = 1 THEN \E i \in 1..(Len(text) - 1) :
                          text[i] \in ConsonantKeys /\ text[i + 1] \in ConsonantKeys
        ELSE IF k = 2 THEN \E i \in 1..Len(text) : text[i] \in VowelSignKeys
        ELSE IF k = 3 THEN \E i \in 1..Len(text) : text[i] \in NumeralKeys
        ELSE IF k = 4 THEN \E i \in 1..Len(text) : text[i] \in CapitalKeys
        ELSE \E i \in 1..Len(text) : text[i] = "/"}

\* isPreetiEncoded with one matching pattern being enough
isPreetiEncoded_one(text) ==
    IF text = <<>> THEN FALSE
    ELSE IF hasDevanagari(text) THEN FALSE
    ELSE Cardinality(preetiPatterns(text)) >= 1

\* lines 212-235
isPreetiEncoded(text) ==
    IF text = <<>> THEN FALSE
    ELSE IF hasDevanagari(text) THEN FALSE
    ELSE Cardinality(preetiPatterns(text)) >= 2

\* whether s starts with p
StartsWith(s, p) == Len(s) >= Len(p) /\ SubSeq(s, 1, Len(p)) = p

\* result.split(preeti).join(unicode)
RECURSIVE splitJoin(_, _, _)
splitJoin(s, preeti, unicode) ==
    IF s = <<>> THEN <<>>
    ELSE IF StartsWith(s, preeti)
    THEN unicode \o splitJoin(SubSeq(s, Len(preeti) + 1, Len(s)), preeti, unicode)
    ELSE <<Head(s)>> \o splitJoin(Tail(s), preeti, unicode)

\* lines 246-248: the loop over SPECIAL_SEQUENCES from entry k on
RECURSIVE applySpecial(_, _)
applySpecial(res, k) ==
    IF k > Len(SPECIAL_SEQUENCES) \/ res = <<>> THEN res
    ELSE applySpecial(splitJoin(res, SPECIAL_SEQUENCES[k][1], SPECIAL_SEQUENCES[k][2]),
                      k + 1)

\* lines 287-291: text.replace(/\u00D8([\u0915-\u0939])/g, '$1\u0930\u094D')
RECURSIVE handleRepha(_)
handleRepha(text) ==
    IF text = <<>> THEN <<>>
    ELSE IF Len(text) >= 2 /\ text[1] = REPHA_CHAR /\ text[2] \in DevanagariConsonants
    THEN <<text[2], "u0930", "u094D">> \o handleRepha(SubSeq(text, 3, Len(text)))
    ELSE <<Head(text)>> \o handleRepha(Tail(text))

\* lines 255-274: the loop over the characters of res from index i on
RECURSIVE mapCharacters(_, _)
mapCharacters(res, i) ==
    IF i > Len(res) THEN <<>>
    ELSE IF i < Len(res) /\ <<res[i], res[i + 1]>> \in DOMAIN PREETI_MAP
    THEN PREETI_MAP[<<res[i], res[i + 1]>>] \o mapCharacters(res, i + 2)
    ELSE IF <<res[i]>> \in DOMAIN PREETI_MAP
    THEN PREETI_MAP[<<res[i]>>] \o mapCharacters(res, i + 1)
    ELSE <<res[i]>> \o mapCharacters(res, i + 1)

\* the vowel signs of lines 302-310, in the order of the source
VowelSigns ==
    <<"u093E", "u093F", "u0940", "u0941", "u0942", "u0947", "u0948", "u094B", "u094C">>

\* text.replace(/x{2,}/g, 'x') for the vowel sign x
RECURSIVE collapseRuns(_, _)
collapseRuns(text, sign) ==
    IF text = <<>> THEN <<>>
    ELSE IF Len(text) >= 2 /\ text[1] = sign /\ text[2] = sign
    THEN collapseRuns(Tail(text), sign)
    ELSE <<Head(text)>> \o collapseRuns(Tail(text), sign)

\* lines 297-313
RECURSIVE fixVowelSignsFrom(_, _)
fixVowelSignsFrom(text, k) ==
    IF k > Len(VowelSigns) THEN text
    ELSE fixVowelSignsFrom(collapseRuns(text, VowelSigns[k]), k + 1)

fixVowelSigns(text) == fixVowelSignsFrom(text, 1)

\* lines 240-280
convertPreetiToUnicode(text) ==
    IF text = <<>> THEN text
    ELSE fixVowelSigns(mapCharacters(handleRepha(applySpecial(text, 1)), 1))

\* lines 318-336
autoConvertToNepali(text) ==
    IF text = <<>> THEN [original |-> text, nepali |-> text, wasPreeti |-> FALSE]
    ELSE IF hasDevanagari(text)
    THEN [original |-> text, nepali |-> text, wasPreeti |-> FALSE]
    ELSE IF isPreetiEncoded(text)
    THEN [original |-> text, nepali |-> convertPreetiToUnicode(text), wasPreeti |-> TRUE]
    ELSE [original |-> text, nepali |-> text, wasPreeti |-> FALSE]

(***************************************************************************)
(* The texts handed to the transliteration helpers: every string of up to  *)
(* MaxTextLen characters over a consonant key, a vowel-sign key, the key   *)
(* of ra, a numeral key, a capital key, the reph key, a letter that is no  *)
(* key of any pattern, and a Devanagari consonant.                         *)
(***************************************************************************)
MaxTextLen == 3

TextAlphabet == {"k", "f", "/", "!", "Q", "a", REPHA_CHAR, "u0915"}

RECURSIVE TextsUpTo(_)
TextsUpTo(n) ==
    IF n = 0 THEN {<<>>}
    ELSE LET shorter == TextsUpTo(n - 1)
         IN  shorter \cup {Append(t, c) : t \in shorter, c \in TextAlphabet}

TextInputs == TextsUpTo(MaxTextLen)

NoAuto == [original |-> <<>>, nepali |-> <<>>, wasPreeti |-> FALSE]

NoTextRes == [auto |-> NoAuto, converted |-> <<>>]

InitText ==
    /\ textIn \in TextInputs
    /\ textRes = NoTextRes
    /\ textDone = {}
    /\ IdlePAN
    /\ IdleRow
    /\ IdleSheet
    /\ IdleHash
    /\ IdleCell
    /\ IdleIngest
    /\ IdleAuth
    /\ InitUpload
    /\ omitUndefined = FALSE

AutoConvert ==
    /\ "auto" \notin textDone
    /\ textRes' = [textRes EXCEPT !.auto = autoConvertToNepali(textIn)]
    /\ textDone' = textDone \cup {"auto"}
    /\ UNCHANGED <<textIn, panVars, rowVars, sheetVars, hashVars, storeVars, requestVars, historyVars, cellVars, ingestVars, authVars>>

ConvertPreeti ==
    /\ "convert" \notin textDone
    /\ textRes' = [textRes EXCEPT !.converted = convertPreetiToUnicode(textIn)]
    /\ textDone' = textDone \cup {"convert"}
    /\ UNCHANGED <<textIn, panVars, rowVars, sheetVars, hashVars, storeVars, requestVars, historyVars, cellVars, ingestVars, authVars>>

NextText ==
    \/ AutoConvert
    \/ ConvertPreeti

SpecText == InitText /\ [][NextText]_vars

(***************************************************************************)
(* getCellValue over the values a cell can hold (uploadController.ts,      *)
(* lines 565-614).  A value is a record: kind tells a string, a number, a  *)
(* boolean, null, a Date, a formula (or shared formula) with its cached    *)
(* result, rich text, a hyperlink, an error value or an empty object       *)
(* apart; result is the cached result in a sequence of one value, or <<>>  *)
(* when there is none.                                                     *)
(***************************************************************************)
CellValue(kind, text, number, cached, runs) ==
    [kind |-> kind, text |-> text, number |-> number, result |-> cached, runs |-> runs]

NullValue == CellValue("null", <<>>, 0, <<>>, <<>>)

StringValue(text) == CellValue("string", text, 0, <<>>, <<>>)

NumberValue(number) == CellValue("number", <<>>, number, <<>>, <<>>)

BooleanValue(b) == CellValue("boolean", <<>>, IF b THEN 1 ELSE 0, <<>>, <<>>)

DateValue(iso) == CellValue("date", iso, 0, <<>>, <<>>)

FormulaValue(kind, cached) == CellValue(kind, <<"A", "1">>, 0, cached, <<>>)

RichTextValue(runs) == CellValue("richText", <<>>, 0, <<>>, runs)

HyperlinkValue(text) == CellValue("hyperlink", text, 0, <<>>, <<>>)

ErrorValue == CellValue("error", <<"#", "N", "/", "A">>, 0, <<>>, <<>>)

ObjectValue == CellValue("object", <<>>, 0, <<>>, <<>>)

\* Object.prototype.toString of a plain object
ObjectObject == <<"[", "o", "b", "j", "e", "c", "t", " ", "O", "b", "j", "e", "c", "t", "]">>

\* whether the value is a primitive (typeof is not 'object')
IsPrimitive(value) == value.kind \in {"string", "number", "boolean"}

\* !value of a primitive or null
IsFalsy(value) ==
    \/ value.kind = "null"
    \/ value.kind = "string" /\ value.text = <<>>
    \/ value.kind = "number" /\ (value.number = 0 \/ value.number = NaN)
    \/ value.kind = "boolean" /\ value.number = 0

\* String(x) and x.toString() of a primitive
PrimitiveToString(value) ==
    IF value.kind = "string" THEN value.text
    ELSE IF value.kind = "number" THEN NumberToString(value.number)
    ELSE IF value.number = 1 THEN <<"t", "r", "u", "e">>
    ELSE <<"f", "a", "l", "s", "e">>

\* richText.map(rt => rt.text).join('')
RECURSIVE joinRuns(_)
joinRuns(runs) == IF runs = <<>> THEN <<>> ELSE Head(runs) \o joinRuns(Tail(runs))

\* getCellValue returning the placeholder of an object it does not know
cellText_placeholder(value) ==
    IF IsFalsy(value) THEN <<>>
    ELSE IF value.kind = "date" THEN toISOString(value.text)
    ELSE IF ~IsPrimitive(value)
    THEN IF value.result # <<>>
         THEN IF ~IsPrimitive(value.result[1]) THEN <<>>
              ELSE PrimitiveToString(value.result[1])
         ELSE IF value.kind = "richText" THEN joinRuns(value.runs)
         ELSE IF value.kind = "hyperlink" /\ value.text # <<>> THEN value.text
         ELSE IF value.kind \in {"formula", "sharedFormula"} THEN <<>>
         ELSE trim(ObjectObject)
    ELSE trim(PrimitiveToString(value))

\* lines 565-614: getCellValue of a cell holding value, for a column index
\* that is defined
cellText(value) ==
    IF IsFalsy(value) THEN <<>>
    ELSE IF value.kind = "date" THEN toISOString(value.text)
    ELSE IF ~IsPrimitive(value)
    THEN IF value.result # <<>>
         THEN IF ~IsPrimitive(value.result[1]) THEN <<>>
              ELSE PrimitiveToString(value.result[1])
         ELSE IF value.kind = "richText" THEN joinRuns(value.runs)
         ELSE IF value.kind = "hyperlink" /\ value.text # <<>> THEN value.text
         ELSE IF value.kind \in {"formula", "sharedFormula"} THEN <<>>
         ELSE LET str == ObjectObject
              IN  IF str = ObjectObject THEN <<>> ELSE trim(str)
    ELSE trim(PrimitiveToString(value))

(***************************************************************************)
(* The values handed to getCellValue.                                      *)
(***************************************************************************)
MaxRuns == 2

CellStrings == {<<>>, <<"5">>, <<" ", "R", "a", "m", " ">>, <<"0">>}

CellNumbers == {0, Num(4950), Num(4950) + 50}

PrimitiveValues ==
    {StringValue(t) : t \in CellStrings} \cup {NumberValue(n) : n \in CellNumbers}
        \cup {BooleanValue(b) : b \in BOOLEAN}

DateValues == {DateValue(<<"2", "0", "2", "4", "-", "0", "1", "-", "0", "1">> \o MidnightUTC)}

\* the cached results of a formula: none, a primitive, an error value, a Date
FormulaResults ==
    {<<>>} \cup {<<v>> : v \in PrimitiveValues \cup {ErrorValue} \cup DateValues}

RECURSIVE RunsUpTo(_)
RunsUpTo(n) ==
    IF n = 0 THEN {<<>>}
    ELSE LET shorter == RunsUpTo(n - 1)
         IN  shorter \cup {Append(r, t) : r \in shorter, t \in CellStrings}

CellInputs ==
    {NullValue, ErrorValue, ObjectValue}
        \cup PrimitiveValues
        \cup DateValues
        \cup {FormulaValue(k, r) : k \in {"formula", "sharedFormula"}, r \in FormulaResults}
        \cup {RichTextValue(r) : r \in RunsUpTo(MaxRuns)}
        \cup {HyperlinkValue(t) : t \in CellStrings}

InitCell ==
    /\ cellIn \in {<<v>> : v \in CellInputs}
    /\ cellRes = <<>>
    /\ IdlePAN
    /\ IdleRow
    /\ IdleSheet
    /\ IdleHash
    /\ IdleText
    /\ IdleIngest
    /\ IdleAuth
    /\ InitUpload
    /\ omitUndefined = FALSE

\* getCellValue(row, colIndex)
GetCellValue ==
    /\ cellRes = <<>>
    /\ cellRes' = <<cellText(cellIn[1])>>
    /\ UNCHANGED <<cellIn, panVars, rowVars, sheetVars, hashVars, textVars, storeVars, requestVars, historyVars, ingestVars, authVars>>

NextCell == GetCellValue

SpecCell == InitCell /\ [][NextCell]_vars

(***************************************************************************)
(* processWorksheet and insertRows on the cells of a whole worksheet       *)
(* (uploadController.ts, lines 210-563).  The worksheet is the sequence of *)
(* its rows, every row the sequence of its cells' texts.                   *)
(***************************************************************************)
\* row.values.toString(): slot 0 of row.values is empty, the cells follow
RECURSIVE rowValuesToString(_)
rowValuesToString(row) ==
    IF row = <<>> THEN <<>>
    ELSE <<",">> \o Head(row) \o rowValuesToString(Tail(row))

\* line 268
PreetiHeaderPatterns ==
    <<<<"l", ";", "=", "g", "+", "+">>,
      <<"l", ";", "=", "g", "+">>,
      <<"q", "m", "=", ";", "+", "=">>>>

\* line 274
headerKeywords ==
    <<<<"s", ".", "n">>,
      <<"s", "n">>,
      <<"u0915", "u094D", "u0930", ".", "u0938", "u0902">>,
      <<"u0928", "u093E", "u092E">>,
      <<"n", "a", "m", "e">>,
      <<"p", "a", "n">>,
      <<"u092A", "u093E", "u0928">>,
      <<"s", "a", "l", "a", "r", "y">>,
      <<"u0924", "u0932", "u092C">>,
      <<"t", "o", "t", "a", "l">>,
      <<"g", "r", "a", "n", "d", " ", "t", "o", "t", "a", "l">>,
      <<"u091C", "u092E", "u094D", "u092E", "u093E">>>>

\* lines 264-280: the row is skipped as one that looks like a header
isLikelyHeader(row) ==
    LET rowTextOriginal == rowValuesToString(row)
        rowText == toLowerCase(rowTextOriginal)
    IN  \/ \E k \in 1..Len(PreetiHeaderPatterns) :
               includes(rowTextOriginal, PreetiHeaderPatterns[k])
        \/ Cardinality({k \in 1..Len(headerKeywords) :
                            includes(rowText, headerKeywords[k])}) >= 3

\* x || 0, x || undefined of a number
orZero(x) == IF x = NaN THEN 0 ELSE x

\* lines 393-396: the cell may be a name
isNameLike(cellVal) ==
    LET letters == {UpperCase[k] : k \in 1..Len(UpperCase)}
                       \cup {LowerCase[k] : k \in 1..Len(LowerCase)}
                       \cup DevanagariBlock
        hasLetters == \E i \in 1..Len(cellVal) : cellVal[i] \in letters
        isNotNumeric == ~(/\ cellVal # <<>>
                          /\ \A i \in 1..Len(cellVal) :
                                 cellVal[i] \in Digits \cup {",", ".", "-"} \cup Whitespace)
        isReasonableLength == Len(cellVal) > 2 /\ Len(cellVal) < 100
    IN  hasLetters /\ isNotNumeric /\ isReasonableLength

\* lines 389-399: the scan for a name over the cells at cols
RECURSIVE scanName(_, _, _)
scanName(rawName, row, cols) ==
    IF cols = <<>> THEN rawName
    ELSE LET cellVal == getCellValue(row, Head(cols))
             found == IF rawName # <<>> THEN rawName
                      ELSE IF isNameLike(cellVal) THEN cellVal
                      ELSE rawName
         IN  scanName(found, row, Tail(cols))

\* lines 418-421: parseFloat(getCellValue(row, col) || '0'), 0 for undefined
dutyOf(row, col) ==
    IF col = 0 THEN 0
    ELSE LET text == getCellValue(row, col)
         IN  orZero(parseFloat(IF text = <<>> THEN <<"0">> ELSE text))

\* lines 424-426: the amount of a mapped column, 0 for undefined
amountOf(row, col) ==
    IF col = 0 THEN 0 ELSE orZero(parseAmount(getCellValue(row, col)))

\* lines 361-450: the ParsedRow pushed for the cells of a row
parsedRowOf(row, mapping, identifier, accountNumber) ==
    LET netSalary == netSalaryOf(row, mapping)
        mappedName == getCellValue(row, mapping.nameCol)
        rawName == IF mappedName = <<>>
                   THEN scanName(mappedName, row, NonEmptyCols(row))
                   ELSE mappedName
        name == autoConvertToNepali(rawName).original
        position == autoConvertToNepali(getCellValue(row, mapping.positionCol)).original
        department == autoConvertToNepali(getCellValue(row, mapping.departmentCol)).original
    IN  [pan |-> identifier, name |-> name, position |-> position,
         department |-> department, accountNumber |-> accountNumber,
         dutyDays |-> <<dutyOf(row, mapping.duty1Col), dutyOf(row, mapping.duty2Col),
                        dutyOf(row, mapping.duty3Col), dutyOf(row, mapping.dutyTotalCol)>>,
         rate |-> amountOf(row, mapping.rateCol),
         grossAmount |-> amountOf(row, mapping.grossCol),
         taxDeduction |-> amountOf(row, mapping.taxCol),
         netSalary |-> netSalary,
         rowHash |-> computeRowHash(identifier, department, NoDate, netSalary)]

\* lines 256-455: the callback of worksheet.eachRow; state holds rows and result
rowCallback(state, row, rowNumber, mapping) ==
    LET candidates == candidatesOf(row, mapping)
        identifier == identifierOf(candidates)
    IN  IF rowNumber <= mapping.headerRow THEN state
        ELSE IF isLikelyHeader(row) THEN state
        ELSE IF identifier = <<>> THEN state
        ELSE IF ~validatePANFlexible(identifier) /\ ~isValidAccount(identifier)
        THEN [state EXCEPT !.result.rowsRead = @ + 1, !.result.skipped = @ + 1]
        ELSE [state EXCEPT
                 !.result.rowsRead = @ + 1,
                 !.rows = Append(@, parsedRowOf(row, mapping, identifier,
                                                candidates.accountNumber))]

(***************************************************************************)
(* The worksheets read: two title rows, the header in row 3 with its       *)
(* labels in English, in the legacy font, in Devanagari, or with an        *)
(* identifier label no pattern knows, one row of data, and a trailing row  *)
(* that carries a total keyword, with a summed amount or without.          *)
(***************************************************************************)
TitleRows ==
    { <<<<"H", "o", "s", "p", "i", "t", "a", "l">>, <<>>, <<>>, <<>>>>,
      <<<<"F", "Y", " ", "2", "0", "8", "1">>, <<>>, <<>>, <<>>>> }

IngestHeaders ==
    { <<<<"P", "A", "N", " ", "N", "o">>, <<"N", "a", "m", "e">>, <<"R", "a", "t", "e">>, <<"A", "m", "o", "u", "n", "t">>>>,
      <<<<"k", "f", "g", " ", "g", "+", "=">>, <<"g", "f", "d", "y">>, <<"b", "/">>, <<"k", "f", "p", "g", "]", " ", "/", "s", "d">>>>,
      <<<<"u092A", "u093E", "u0928", " ", "u0928", "u0902", ".">>, <<"u0928", "u093E", "u092E">>, <<"u0926", "u0930">>, <<"u092A", "u093E", "u0909", "u0928", "u0947", " ", "u0930", "u0915", "u092E">>>>,
      <<<<"u09AA", "u09BE", "u09A8", " ", "u0928", "u0902", ".">>, <<"u0928", "u093E", "u092E">>, <<"u0926", "u0930">>, <<"u092A", "u093E", "u0909", "u0928", "u0947", " ", "u0930", "u0915", "u092E">>>> }

IngestNames == {<<"R", "a", "m">>, <<"/", "f", "d">>, <<>>}

IngestRates == {<<>>, <<"5", "0", "0">>}

IngestDataRow(name, rate) == <<<<"1", "2", "3", "4", "5">>, name, rate, <<"3", "5", ",", "0", "0", "0">>>>

TrailingRows ==
    { <<<<"u091C", "u092E", "u094D", "u092E", "u093E">>, <<>>, <<>>, <<>>>>,
      <<<<"u091C", "u092E", "u094D", "u092E", "u093E">>, <<>>, <<>>, <<"3", "5", ",", "0", "0", "0">>>>,
      <<<<"T", "o", "t", "a", "l">>, <<>>, <<>>, <<"3", "5", ",", "0", "0", "0">>>>,
      <<<<"G", "r", "a", "n", "d", " ", "T", "o", "t", "a", "l">>, <<>>, <<>>, <<"7", "0", ",", "0", "0", "0">>>>,
      <<<<>>, <<"T", "o", "t", "a", "l">>, <<>>, <<"3", "5", ",", "0", "0", "0">>>>,
      <<<<>>, <<"u091C", "u092E", "u094D", "u092E", "u093E">>, <<>>, <<"3", "5", ",", "0", "0", "0">>>> }

IngestInputs ==
    { <<t1, t2, h, IngestDataRow(name, rate)>> \o trailing :
        t1 \in TitleRows, t2 \in TitleRows, h \in IngestHeaders,
        name \in IngestNames, rate \in IngestRates,
        trailing \in {<<>>} \cup {<<r>> : r \in TrailingRows} }

NoIngestRes ==
    [step |-> "start", mapping |-> FallbackMapping, rowNumber |-> 1,
     rows |-> <<>>, result |-> NewResult("march.xlsx")]

InitIngest ==
    /\ ingestIn \in IngestInputs
    /\ ingestRes = NoIngestRes
    /\ IdlePAN
    /\ IdleRow
    /\ IdleSheet
    /\ IdleHash
    /\ IdleText
    /\ IdleCell
    /\ IdleAuth
    /\ InitUpload

\* processWorksheet, lines 216-254: the mapping found, or the fallback
ProcessWorksheet ==
    /\ ingestRes.step = "start"
    /\ LET found == findColumns(ingestIn)
       IN  ingestRes' = [ingestRes EXCEPT
               !.mapping = IF found = <<>> THEN FallbackMapping ELSE Head(found),
               !.step = "rows"]
    /\ UNCHANGED <<ingestIn, panVars, rowVars, sheetVars, hashVars, textVars, cellVars,
                   storeVars, requestVars, historyVars, authVars>>

\* worksheet.eachRow calls the callback for the next row, lines 256-455
EachRow ==
    /\ ingestRes.step = "rows"
    /\ ingestRes.rowNumber <= Len(ingestIn)
    /\ LET state == rowCallback([rows |-> ingestRes.rows, result |-> ingestRes.result],
                                ingestIn[ingestRes.rowNumber], ingestRes.rowNumber,
                                ingestRes.mapping)
       IN  ingestRes' = [ingestRes EXCEPT
               !.rows = state.rows,
               !.result = state.result,
               !.rowNumber = @ + 1]
    /\ UNCHANGED <<ingestIn, panVars, rowVars, sheetVars, hashVars, textVars, cellVars,
                   storeVars, requestVars, historyVars, authVars>>

\* insertRows, lines 472-563, once every row was visited: the bulk write and
\* the person upserts succeed
InsertRows(t, order) ==
    /\ ingestRes.step = "rows"
    /\ ingestRes.rowNumber > Len(ingestIn)
    /\ IF ingestRes.rows = <<>>
       THEN /\ ingestRes' = [ingestRes EXCEPT !.step = "done"]
            /\ UNCHANGED <<SalaryRecord, Person, now>>
       ELSE LET ops == bulkOps(ingestRes.rows, ingestRes.result.filename, t)
                bulkResult == bulkWrite(SalaryRecord, ops, order)
            IN  /\ SalaryRecord' = bulkResult.store
                /\ Person' = upsertPersons(Person, ingestRes.rows,
                                           uniquePans(ingestRes.rows, {}))
                /\ now' = t
                /\ ingestRes' = [ingestRes EXCEPT
                        !.step = "done",
                        !.result.inserted = bulkResult.upsertedCount,
                        !.result.skipped = Len(ingestRes.rows) - bulkResult.upsertedCount
                                               - bulkResult.modifiedCount]
    /\ UNCHANGED <<ingestIn, panVars, rowVars, sheetVars, hashVars, textVars, cellVars,
                   omitUndefined, requestVars, historyVars, authVars>>

NextIngest ==
    \/ ProcessWorksheet
    \/ EachRow
    \/ \E t \in Clock, order \in Orders(Len(ingestRes.rows), Len(ingestRes.rows)) :
           InsertRows(t, order)

SpecIngest == InitIngest /\ [][NextIngest]_vars

(***************************************************************************)
(* Refresh tokens (the auth handlers, uploadController.ts lines 615-815,    *)
(* and the RefreshToken schema).  A token is the number of the call of     *)
(* generateRefreshToken that returned it: 64 random bytes are taken never  *)
(* to repeat.  Time is counted in days.  A refresh request runs from one   *)
(* await to the next; several requests interleave at their awaits.         *)
(***************************************************************************)
\* line 625
REFRESH_TOKEN_EXPIRY_DAYS == 7

MaxLogins == 1

MaxTicks == 1

\* the refresh requests, which may run at the same time
Requests == {1, 2}

\* the most tokens that are ever generated: one a login, one a refresh
MaxTokens == MaxLogins + Cardinality(Requests)

\* the accounts of the user store; no handler modelled here changes it
Users == {"alice", "bob"}

\* lines 639-651: the document createRefreshTokenInDB stores for the user
createRefreshTokenInDB(userId) ==
    [userId |-> userId, expiresAt |-> authNow + REFRESH_TOKEN_EXPIRY_DAYS]

\* deleteOne that leaves the store as it is
deleteOne_keep(store, token) == store

\* deleteOne of the document of a token: nothing happens when it is gone
deleteOne(store, token) == [t \in DOMAIN store \ {token} |-> store[t]]

\* a request that has not arrived yet
NoRequest ==
    [pc |-> "idle", presented |-> 0, userId |-> "", status |-> 0, newToken |-> 0,
     late |-> FALSE]

\* history: the tokens for which a refresh has answered 200
Consumed == {p[1] : p \in rotations}

InitAuth ==
    /\ RefreshToken = <<>>
    /\ refreshReq = [r \in Requests |-> NoRequest]
    /\ authNow = 0
    /\ issued = 0
    /\ logins = 0
    /\ ticks = 0
    /\ rotations = {}
    /\ IdlePAN
    /\ IdleRow
    /\ IdleSheet
    /\ IdleHash
    /\ IdleText
    /\ IdleCell
    /\ IdleIngest
    /\ InitUpload
    /\ omitUndefined = FALSE

\* the auth handlers leave the stores and the locals of the upload alone
UploadUntouched ==
    UNCHANGED <<panVars, rowVars, sheetVars, hashVars, textVars, cellVars, ingestVars,
                storeVars, requestVars, historyVars>>

\* login, lines 696-730, of a user with the right password: one token is stored
Login(u) ==
    /\ logins < MaxLogins
    /\ logins' = logins + 1
    /\ issued' = issued + 1
    /\ RefreshToken' = Put(RefreshToken, issued + 1, createRefreshTokenInDB(u))
    /\ UNCHANGED <<refreshReq, authNow, ticks, rotations>>
    /\ UploadUntouched

\* refresh, lines 732-751: request r presents a token that was issued (0: no
\* token), the stored token is looked up and its expiry is tested
FindToken(r, token) ==
    /\ refreshReq[r].pc = "idle"
    /\ token <= issued
    /\ LET arrived == [NoRequest EXCEPT !.presented = token, !.late = token \in Consumed]
       IN  refreshReq' = [refreshReq EXCEPT ![r] =
               IF token = 0
               THEN [arrived EXCEPT !.pc = "done", !.status = 400]
               ELSE IF token \notin DOMAIN RefreshToken
               THEN [arrived EXCEPT !.pc = "done", !.status = 401]
               ELSE IF RefreshToken[token].expiresAt < authNow
               THEN [arrived EXCEPT !.pc = "remove", !.userId = RefreshToken[token].userId]
               ELSE [arrived EXCEPT !.pc = "findUser", !.userId = RefreshToken[token].userId]]
    /\ UNCHANGED <<RefreshToken, authNow, issued, logins, ticks, rotations>>
    /\ UploadUntouched

\* refresh, lines 753-758: the user of the stored token is looked up
FindUser(r) ==
    /\ refreshReq[r].pc = "findUser"
    /\ refreshReq' = [refreshReq EXCEPT ![r].pc =
           IF refreshReq[r].userId \in Users THEN "rotate" ELSE "remove"]
    /\ UNCHANGED <<RefreshToken, authNow, issued, logins, ticks, rotations>>
    /\ UploadUntouched

\* refresh, lines 747-750 and 755-758: the token found is deleted, answer 401
RemoveToken(r) ==
    /\ refreshReq[r].pc = "remove"
    /\ RefreshToken' = deleteOne(RefreshToken, refreshReq[r].presented)
    /\ refreshReq' = [refreshReq EXCEPT ![r].pc = "done", ![r].status = 401]
    /\ UNCHANGED <<authNow, issued, logins, ticks, rotations>>
    /\ UploadUntouched

\* refresh, line 761: the old token is deleted
DeleteOld(r) ==
    /\ refreshReq[r].pc = "rotate"
    /\ RefreshToken' = deleteOne(RefreshToken, refreshReq[r].presented)
    /\ refreshReq' = [refreshReq EXCEPT ![r].pc = "create"]
    /\ UNCHANGED <<authNow, issued, logins, ticks, rotations>>
    /\ UploadUntouched

\* refresh, lines 763-769: the new token is stored and sent, answer 200
CreateToken(r) ==
    /\ refreshReq[r].pc = "create"
    /\ issued' = issued + 1
    /\ RefreshToken' = Put(RefreshToken, issued + 1,
                           createRefreshTokenInDB(refreshReq[r].userId))
    /\ refreshReq' = [refreshReq EXCEPT
           ![r].pc = "done", ![r].status = 200, ![r].newToken = issued + 1]
    /\ rotations' = rotations \cup {<<refreshReq[r].presented, issued + 1>>}
    /\ UNCHANGED <<authNow, logins, ticks>>
    /\ UploadUntouched

\* logout, lines 777-795, with a stored token in the body
Logout(token) ==
    /\ token \in DOMAIN RefreshToken
    /\ RefreshToken' = deleteOne(RefreshToken, token)
    /\ UNCHANGED <<refreshReq, authNow, issued, logins, ticks, rotations>>
    /\ UploadUntouched

\* a day passes, or the lifetime of a token and a day
Tick(days) ==
    /\ ticks < MaxTicks
    /\ ticks' = ticks + 1
    /\ authNow' = authNow + days
    /\ UNCHANGED <<RefreshToken, refreshReq, issued, logins, rotations>>
    /\ UploadUntouched

\* the TTL index on expiresAt: the store drops a token that has expired
ExpireToken(token) ==
    /\ token \in DOMAIN RefreshToken
    /\ RefreshToken[token].expiresAt < authNow
    /\ RefreshToken' = deleteOne(RefreshToken, token)
    /\ UNCHANGED <<refreshReq, authNow, issued, logins, ticks, rotations>>
    /\ UploadUntouched

NextAuth ==
    \/ \E u \in Users : Login(u)
    \/ \E r \in Requests, token \in 0..MaxTokens : FindToken(r, token)
    \/ \E r \in Requests : FindUser(r)
    \/ \E r \in Requests : RemoveToken(r)
    \/ \E r \in Requests : DeleteOld(r)
    \/ \E r \in Requests : CreateToken(r)
    \/ \E token \in 1..MaxTokens : ExpireToken(token)
    \/ \E token \in 1..MaxTokens : Logout(token)
    \/ \E days \in {1, REFRESH_TOKEN_EXPIRY_DAYS + 1} : Tick(days)

SpecAuth == InitAuth /\ [][NextAuth]_vars

(***************************************************************************)
(* Steps of the upload handler, told apart by where the handler stands     *)
(* before and after them.                                                  *)
(***************************************************************************)
\* processExcelFile returns its UploadResult
FileFinishes ==
    /\ pc \in {"load", "rows", "persons"}
    /\ pc' \in {"load", "idle"}
    /\ response'.status # 500

\* the bulk write of insertRows has run
BulkWriteStep == pc = "rows" /\ pc' = "persons"

\* the indices of the rows of rs that carry the identifier pan
RowsOf(rs, pan) == {i \in 1..Len(rs) : rs[i].pan = pan}

\* the last row of rs, in file order, that carries the identifier pan
LastRowOf(rs, pan) == CHOOSE i \in RowsOf(rs, pan) : \A j \in RowsOf(rs, pan) : j <= i

\* the identity fields and the mutable fields of a stored document
IdentityOf(doc) ==
    [name |-> doc.name, position |-> doc.position, department |-> doc.department,
     accountNumber |-> doc.accountNumber]

MutableOf(doc) ==
    [dutyDays |-> doc.dutyDays, rate |-> doc.rate, grossAmount |-> doc.grossAmount,
     taxDeduction |-> doc.taxDeduction, netSalary |-> doc.netSalary,
     rowHash |-> doc.rowHash, source |-> doc.source, uploadedAt |-> doc.uploadedAt]

(***************************************************************************)
(* C1: for every file that processExcelFile finishes, rowsRead = inserted  *)
(* + updated + skipped, where updated is the number of records the bulk    *)
(* write modified; a row skipped while parsing stays counted in skipped.   *)
(***************************************************************************)
C1_AsStated ==
    [][FileFinishes => result.rowsRead = result.inserted + updated + result.skipped]_vars

(***************************************************************************)
(* C2: a bulk write that returns leaves, for every identifier of its       *)
(* batch, a record whose identity fields are those the record had before   *)
(* (those of a row of the batch when the record is new) and whose mutable  *)
(* fields are those of a row of this batch, the most recent upload with    *)
(* that identifier.                                                        *)
(***************************************************************************)
C2_AsStated ==
    [][(BulkWriteStep /\ ~write'.failed) =>
        \A pan \in {rows[i].pan : i \in 1..Len(rows)} :
            /\ pan \in DOMAIN SalaryRecord'
            /\ IF pan \in DOMAIN SalaryRecord
               THEN IdentityOf(SalaryRecord'[pan]) = IdentityOf(SalaryRecord[pan])
               ELSE \E i \in RowsOf(rows, pan) :
                       IdentityOf(SalaryRecord'[pan]) = write'.ops[i].setOnInsert
            /\ \E i \in RowsOf(rows, pan) :
                   MutableOf(SalaryRecord'[pan]) = write'.ops[i].set]_vars

(***************************************************************************)
(* C3: when a batch holds several rows with one identifier, the mutable    *)
(* fields stored for it after a bulk write that returned are those of the  *)
(* last such row in file order, whatever order the store applied the       *)
(* operations in.  Stated for a store layer that writes every $set value.  *)
(***************************************************************************)
C3_AsStated ==
    (pc = "persons" /\ ~write.failed /\ ~omitUndefined) =>
        \A pan \in {rows[i].pan : i \in 1..Len(rows)} :
            MutableOf(SalaryRecord[pan]) = write.ops[LastRowOf(rows, pan)].set

(***************************************************************************)
(* C4: a batch whose rows all carry a row hash that is stored already      *)
(* inserts nothing, counts every row as skipped and reports no error:      *)
(* inserted = 0, skipped = rowsRead, errors empty.                         *)
(***************************************************************************)
C4_AsStated ==
    (/\ pc = "persons"
     /\ ~write.failed
     /\ write.duplicates = Len(rows)
     /\ result.rowsRead = Len(rows)) =>
        /\ result.inserted = 0
        /\ result.skipped = result.rowsRead
        /\ result.errors = <<>>

(***************************************************************************)
(* C5: when the bulk write of insertRows fails, the rows it did not write  *)
(* are counted in skipped and at least one message is appended to errors.  *)
(***************************************************************************)
C5_AsStated ==
    [][(BulkWriteStep /\ write'.failed) =>
        /\ result'.skipped >= result.skipped + (Len(rows) - write'.applied)
        /\ Len(result'.errors) > Len(result.errors)]_vars

(***************************************************************************)
(* C6: a request with several files is answered with one outcome per       *)
(* uploaded file, whatever failed while one of the files was processed.    *)
(***************************************************************************)
C6_AsStated ==
    (pc = "idle" /\ fileCount > 1) => response = Summary(fileCount)

(***************************************************************************)
(* C7: when an extraction step of a data row raises, a message naming the  *)
(* row's number is appended to errors, the row is not emitted, and the     *)
(* later rows of the worksheet are still parsed.                           *)
(***************************************************************************)
C7_AsStated ==
    [][\A r \in SheetRows, n \in 1..MaxRowNumber :
        (ParseRow(r, n) /\ ~r.headerLike /\ r.raises # "none") =>
            /\ pc' = "rows"
            /\ result'.errors = Append(result.errors, ParseError(n))
            /\ rows' = rows]_vars

(***************************************************************************)
(* C8: normalizePAN is idempotent: normalizing a normalized value leaves   *)
(* it unchanged, for digit strings of any length, the empty string and     *)
(* strings with non-digit characters.                                      *)
(***************************************************************************)
C8_NormalizeIdempotent ==
    "norm2" \in panDone => panRes.norm2 = panRes.norm

\* a short value with a non-digit in it has been normalized twice
C8_Witness ==
    /\ "norm2" \in panDone
    /\ panIn = <<"0", "-", "1", "2", "3", "a">>
    /\ panRes.norm2 = <<"0", "0", "0", "0", "0", "0", "1", "2", "3">>

(***************************************************************************)
(* C9: normalizePAN(x) is the digits of x left-padded with zeros to        *)
(* exactly 9 digits when x has 1 to 8 digits, and the digits of x          *)
(* unchanged when x has 9 or more digits.                                  *)
(***************************************************************************)
DigitsOf(s) == SelectSeq(s, LAMBDA c : c \in Digits)

C9_NormalizePads ==
    "norm" \in panDone =>
        LET d == DigitsOf(panIn)
            out == panRes.norm
        IN  /\ (Len(d) >= 1 /\ Len(d) <= 8) =>
                /\ Len(out) = 9
                /\ SubSeq(out, 9 - Len(d) + 1, 9) = d
                /\ \A i \in 1..(9 - Len(d)) : out[i] = "0"
            /\ Len(d) >= 9 => out = d

\* normalize("123") = "000000123"
C9_Witness ==
    /\ "norm" \in panDone
    /\ panIn = <<"1", "2", "3">>
    /\ panRes.norm = <<"0", "0", "0", "0", "0", "0", "1", "2", "3">>

(***************************************************************************)
(* C10 as stated: validatePAN is true iff its argument is exactly 9 digits *)
(* or 13 to 17 digits, and validatePANFlexible is true iff its argument is *)
(* 1 to 17 digits.                                                         *)
(***************************************************************************)
IsDigitString(s, lo, hi) ==
    /\ Len(s) \in lo..hi
    /\ \A i \in 1..Len(s) : s[i] \in Digits

C10_AsStated ==
    /\ "strict" \in panDone =>
        (panRes.strict <=> (IsDigitString(panIn, 9, 9) \/ IsDigitString(panIn, 13, 17)))
    /\ "flex" \in panDone =>
        (panRes.flex <=> IsDigitString(panIn, 1, 17))

(***************************************************************************)
(* C10: validatePAN is true iff its argument, with leading and trailing    *)
(* whitespace removed, is exactly 9 digits or 13 to 17 digits;             *)
(* validatePANFlexible is true iff that trimmed argument is 1 to 17        *)
(* digits; so every strictly valid value is flexibly valid.                *)
(***************************************************************************)
Unpadded(s) ==
    LET keep == {i \in 1..Len(s) : s[i] \notin Whitespace}
    IN  IF keep = {} THEN <<>>
        ELSE LET lo == CHOOSE i \in keep : \A j \in keep : i <= j
                 hi == CHOOSE i \in keep : \A j \in keep : i >= j
             IN  SubSeq(s, lo, hi)

C10_ValidateTrimmed ==
    LET t == Unpadded(panIn)
    IN  /\ "strict" \in panDone =>
            (panRes.strict <=> (IsDigitString(t, 9, 9) \/ IsDigitString(t, 13, 17)))
        /\ "flex" \in panDone =>
            (panRes.flex <=> IsDigitString(t, 1, 17))
        /\ {"strict", "flex"} \subseteq panDone => (panRes.strict => panRes.flex)

\* "5" is flexibly valid but not strictly valid
C10_Witness ==
    /\ {"strict", "flex"} \subseteq panDone
    /\ panIn = <<"5">>
    /\ panRes.flex
    /\ ~panRes.strict

(***************************************************************************)
(* C11 as stated: a row whose identifier cell holds the 13-digit           *)
(* "1234567890123" and whose account cell holds the 9-digit "123456789"    *)
(* comes out with identifier "123456789" and account "1234567890123".      *)
(***************************************************************************)
BothMapped == rowIn.mapping.panCol = 2 /\ rowIn.mapping.accountCol = 3

PadTo9(d) == IF Len(d) < 9 THEN [i \in 1..(9 - Len(d)) |-> "0"] \o d ELSE d

C12_AsStated ==
    (/\ rowRes.emitted
     /\ BothMapped
     /\ rowIn.cells[2] = <<>>
     /\ DigitsOf(rowIn.cells[3]) # <<>>) =>
        rowRes.identifier = normalizePAN(DigitsOf(rowIn.cells[3]))

(***************************************************************************)
(* C13 as stated: when the identifier is found by scanning the cells (no   *)
(* identifier column mapped, or the mapped cell empty), a row with a cell  *)
(* of exactly 9 digits gets a 9-digit token, even if an earlier cell holds *)
(* a digit token of another length; only when no cell has exactly 9 digits *)
(* is the first cell of 1 to 17 digits used.                               *)
(***************************************************************************)
Scanned ==
    \/ rowIn.mapping.panCol = 0
    \/ DigitsOf(rowIn.cells[rowIn.mapping.panCol]) = <<>>

CellsOfLength(lo, hi) ==
    {c \in 1..Len(rowIn.cells) :
        Len(DigitsOf(rowIn.cells[c])) >= lo /\ Len(DigitsOf(rowIn.cells[c])) <= hi}

Lowest(S) == CHOOSE c \in S : \A d \in S : c <= d

C13_AsStated ==
    ("identifier" \in rowDone /\ Scanned) =>
        IF CellsOfLength(9, 9) # {}
        THEN Len(rowRes.panClean) = 9
        ELSE CellsOfLength(1, 17) # {} =>
                rowRes.panClean = DigitsOf(rowIn.cells[Lowest(CellsOfLength(1, 17))])

(***************************************************************************)
(* C14 as stated: every emitted row has an identifier that passes          *)
(* validatePANFlexible (1 to 17 digits), and a row whose only candidate    *)
(* has more than 17 digits is discarded.                                   *)
(***************************************************************************)
C14_AsStated ==
    /\ rowRes.emitted => validatePANFlexible(rowRes.identifier)
    /\ (/\ CellsOfLength(1, 17) = {}
        /\ \E c \in 1..Len(rowIn.cells) : Len(DigitsOf(rowIn.cells[c])) > 17) =>
            ~rowRes.emitted

(***************************************************************************)
(* C15 as stated: with both the net and the gross column mapped, a         *)
(* positive net value is the amount; when the net value is not positive    *)
(* (empty, zero or non-numeric) and the gross value is positive, the       *)
(* amount is the gross value.                                              *)
(***************************************************************************)
AmountsMapped == rowIn.mapping.netSalaryCol = 4 /\ rowIn.mapping.grossCol = 5

NetValue == parseAmount(rowIn.cells[4])

GrossValue == parseAmount(rowIn.cells[5])

Positive(v) == v # NaN /\ v > 0

C15_AsStated ==
    ("amount" \in rowDone /\ AmountsMapped) =>
        /\ Positive(NetValue) => rowRes.netSalary = NetValue
        /\ (~Positive(NetValue) /\ Positive(GrossValue)) => rowRes.netSalary = GrossValue

(***************************************************************************)
(* C16 as stated: when neither mapped amount column yields a positive      *)
(* number, the amount is the largest numeric cell value v with             *)
(* 100 < v < 10,000,000 among the cells whose numeric token is not a       *)
(* 9-digit number; a cell is left out only for being out of range or 9     *)
(* digits long.                                                            *)
(***************************************************************************)
MappedValue(col) == IF col = 0 THEN 0 ELSE parseAmount(rowIn.cells[col])

PlausibleAmounts ==
    {parseAmount(rowIn.cells[c]) : c \in
        {d \in 1..Len(rowIn.cells) :
            /\ Positive(parseAmount(rowIn.cells[d]))
            /\ parseAmount(rowIn.cells[d]) > Num(100)
            /\ parseAmount(rowIn.cells[d]) < Num(10000000)
            /\ Len(DigitsOf(rowIn.cells[d])) # 9}}

Largest(S) == CHOOSE v \in S : \A w \in S : w <= v

C16_AsStated ==
    (/\ "amount" \in rowDone
     /\ ~Positive(MappedValue(rowIn.mapping.netSalaryCol))
     /\ ~Positive(MappedValue(rowIn.mapping.grossCol))
     /\ PlausibleAmounts # {}) =>
        rowRes.netSalary = Largest(PlausibleAmounts)

NoPositiveCell ==
    \A c \in 1..Len(rowIn.cells) : ~Positive(parseAmount(rowIn.cells[c]))

Matches(row, patterns) ==
    LET lowered == {toLowerCase(patterns[i]) : i \in 1..Len(patterns)}
    IN  \E c \in 1..Len(row) :
            LET cell == toLowerCase(trim(row[c]))
            IN  \E p \in lowered : includes(cell, p)

Qualifies(row) ==
    /\ Matches(row, COLUMN_PATTERNS.pan) \/ Matches(row, COLUMN_PATTERNS.account)
    /\ Matches(row, COLUMN_PATTERNS.netSalary) \/ Matches(row, COLUMN_PATTERNS.gross)

QualifyingRows == {r \in 1..Len(sheetIn) : r <= 20 /\ Qualifies(sheetIn[r])}

C18_LowestHeaderRow ==
    sheetRes.step # "start" =>
        LET qualifying == QualifyingRows
        IN  /\ IF qualifying = {}
               THEN sheetRes.found = <<>>
               ELSE /\ sheetRes.found # <<>>
                    /\ Head(sheetRes.found).headerRow = Lowest(qualifying)
            /\ sheetRes.step = "mapped" =>
                  sheetRes.mapping.headerRow =
                      IF qualifying = {} THEN 0 ELSE Lowest(qualifying)

\* the only header row of the sheet is row 21, and the fallback has been taken
C18_Witness ==
    /\ sheetRes.step = "mapped"
    /\ Len(sheetIn) > 20
    /\ Qualifies(sheetIn[21])
    /\ sheetRes.found = <<>>
    /\ sheetRes.mapping.headerRow = 0

(***************************************************************************)
(* C19 as stated: in every mapping findColumns returns, the column indexes *)
(* that are defined are pairwise distinct over all the fields.             *)
(***************************************************************************)
ColumnFields ==
    {"panCol", "nameCol", "positionCol", "departmentCol", "accountCol",
     "duty1Col", "duty2Col", "duty3Col", "dutyTotalCol", "rateCol",
     "grossCol", "taxCol", "netSalaryCol"}

C19_AsStated ==
    sheetRes.found # <<>> =>
        \A f, g \in ColumnFields :
            (f # g /\ Head(sheetRes.found)[f] # 0 /\ Head(sheetRes.found)[g] # 0) =>
                Head(sheetRes.found)[f] # Head(sheetRes.found)[g]

(***************************************************************************)
(* C20 as stated: computeRowHash is deterministic, and two calls that      *)
(* differ in exactly one of the four arguments give different pipe-joined  *)
(* strings, hence different digests.                                       *)
(***************************************************************************)
C20_AsStated ==
    hashRes # <<>> =>
        /\ hashIn[1] = hashIn[2] => hashRes[1] = hashRes[2]
        /\ Cardinality(Differing(hashIn[1], hashIn[2])) = 1 => hashRes[1] # hashRes[2]

(***************************************************************************)
(* C20: computeRowHash is deterministic, and two calls that differ in      *)
(* exactly one argument give different strings exactly when that argument  *)
(* is the employer or the amount, an identifier that differs by more than  *)
(* the white space around it, or a date that is another day (null and the  *)
(* empty string both standing for no date, and a date written with or      *)
(* without its time of midnight being the same day).                       *)
(***************************************************************************)
DayOf(d) == IF d = NoDate \/ d = <<>> THEN <<>> ELSE SubSeq(d, 1, 10)

SameForHash(f, x, y) ==
    IF f = "pan" THEN trim(x) = trim(y)
    ELSE IF f = "effectiveFrom" THEN DayOf(x) = DayOf(y)
    ELSE x = y

C20_HashTellsApart ==
    hashRes # <<>> =>
        /\ hashIn[1] = hashIn[2] => hashRes[1] = hashRes[2]
        /\ \A f \in DOMAIN hashIn[1] :
              Differing(hashIn[1], hashIn[2]) = {f} =>
                  (hashRes[1] = hashRes[2] <=> SameForHash(f, hashIn[1][f], hashIn[2][f]))

\* two calls that differ in the amount only have given different strings
C20_Witness ==
    /\ hashRes # <<>>
    /\ Differing(hashIn[1], hashIn[2]) = {"salaryAmount"}
    /\ hashRes[1] # hashRes[2]

(***************************************************************************)
(* C21: autoConvertToNepali returns wasPreeti = TRUE only for a text with  *)
(* no code point in U+0900..U+097F and at least two of the five signals    *)
(* (a run of two consonant keys, a vowel-sign key, a numeral key, a        *)
(* capital key, the key of ra); a text with a Devanagari code point, with  *)
(* fewer than two signals, or empty comes back unchanged, as nepali and as *)
(* original, with wasPreeti = FALSE.                                       *)
(***************************************************************************)
HasAny(text, keys) == \E i \in 1..Len(text) : text[i] \in keys

HasRun(text, keys) ==
    \E i \in 1..(Len(text) - 1) : text[i] \in keys /\ text[i + 1] \in keys

Signals(text) ==
    (IF HasRun(text, ConsonantKeys) THEN 1 ELSE 0)
    + (IF HasAny(text, VowelSignKeys) THEN 1 ELSE 0)
    + (IF HasAny(text, NumeralKeys) THEN 1 ELSE 0)
    + (IF HasAny(text, CapitalKeys) THEN 1 ELSE 0)
    + (IF HasAny(text, {"/"}) THEN 1 ELSE 0)

C21_WasPreeti ==
    "auto" \in textDone =>
        /\ textRes.auto.original = textIn
        /\ textRes.auto.wasPreeti =>
              ~HasAny(textIn, DevanagariBlock) /\ Signals(textIn) >= 2
        /\ (HasAny(textIn, DevanagariBlock) \/ Signals(textIn) < 2 \/ textIn = <<>>) =>
              /\ textRes.auto.nepali = textIn
              /\ ~textRes.auto.wasPreeti

\* a text with a Devanagari consonant and two signals has come back unchanged
C21_Witness ==
    /\ "auto" \in textDone
    /\ HasAny(textIn, DevanagariBlock)
    /\ Signals(textIn) >= 2
    /\ textRes.auto.nepali = textIn
    /\ ~textRes.auto.wasPreeti

(***************************************************************************)
(* C22 as stated: for every input in which the reph key U+00D8 is          *)
(* immediately followed by a consonant key, the output of                  *)
(* convertPreetiToUnicode holds that consonant first and the sequence ra,  *)
(* halant after it.                                                        *)
(***************************************************************************)
\* the keys of PREETI_MAP that stand for one consonant
ConsonantGlyphs ==
    {k \in DOMAIN PREETI_MAP :
        Len(k) = 1 /\ Len(PREETI_MAP[k]) = 1 /\ PREETI_MAP[k][1] \in DevanagariConsonants}

Contains(s, p) == \E i \in 1..(Len(s) - Len(p) + 1) : SubSeq(s, i, i + Len(p) - 1) = p

C22_AsStated ==
    "convert" \in textDone =>
        \A i \in 1..(Len(textIn) - 1) :
            (textIn[i] = REPHA_CHAR /\ <<textIn[i + 1]>> \in ConsonantGlyphs) =>
                Contains(textRes.converted,
                         PREETI_MAP[<<textIn[i + 1]>>] \o <<"u0930", "u094D">>)

(***************************************************************************)
(* C23: getCellValue never returns the string "[object Object]"; for a     *)
(* formula cell whose cached result is an object (an error value, a        *)
(* nested object), for a formula cell without a cached result and for any  *)
(* other object it does not know, it returns the empty string.             *)
(***************************************************************************)
C23_NoPlaceholder ==
    cellRes # <<>> =>
        LET value == cellIn[1]
            isFormula == value.kind \in {"formula", "sharedFormula"}
        IN  /\ cellRes[1] # ObjectObject
            /\ (isFormula /\ value.result # <<>>
                    /\ value.result[1].kind \notin {"string", "number", "boolean"}) =>
                  cellRes[1] = <<>>
            /\ (isFormula /\ value.result = <<>>) => cellRes[1] = <<>>
            /\ value.kind \in {"error", "object"} => cellRes[1] = <<>>

\* the cell holds an error value and the empty string has been returned
C23_Witness ==
    /\ cellIn = <<ErrorValue>>
    /\ cellRes = << <<>> >>

(***************************************************************************)
(* C24.  End to end: a worksheet whose header is found in row 3, with      *)
(* identifier, name, rate and amount labels, followed by one row of data   *)
(* with the identifier token "12345" and the amount token "35,000" and     *)
(* then by a row that holds nothing but the total keyword, ends with       *)
(* rowsRead = 1 and one record inserted, of identifier "000012345" and     *)
(* amount 35000; the trailing row is not counted.                          *)
(***************************************************************************)
\* the header of the worksheet read was found in row 3, with the four labels
HeaderInRow3 ==
    /\ ingestRes.step # "start"
    /\ ingestRes.mapping.headerRow = 3
    /\ ingestRes.mapping.panCol # 0
    /\ ingestRes.mapping.nameCol # 0
    /\ ingestRes.mapping.rateCol # 0
    /\ ingestRes.mapping.grossCol # 0

TotalKeywordRow == <<<<"u091C", "u092E", "u094D", "u092E", "u093E">>, <<>>, <<>>, <<>>>>

\* rows 4 and 5 of the worksheet read are the row of data and the total row
DataThenTotal ==
    /\ Len(ingestIn) = 5
    /\ ingestIn[4][1] = <<"1", "2", "3", "4", "5">>
    /\ ingestIn[4][4] = <<"3", "5", ",", "0", "0", "0">>
    /\ ingestIn[5] = TotalKeywordRow

C24_EndToEnd ==
    (HeaderInRow3 /\ DataThenTotal) =>
        /\ ingestRes.rowNumber > 4 =>
               /\ ingestRes.result.rowsRead = 1
               /\ Len(ingestRes.rows) = 1
               /\ ingestRes.rows[1].pan = <<"0", "0", "0", "0", "1", "2", "3", "4", "5">>
               /\ ingestRes.rows[1].netSalary = Num(35000)
        /\ ingestRes.step = "done" =>
               /\ ingestRes.result.inserted = 1
               /\ DOMAIN SalaryRecord = {<<"0", "0", "0", "0", "1", "2", "3", "4", "5">>}
               /\ SalaryRecord[<<"0", "0", "0", "0", "1", "2", "3", "4", "5">>].netSalary = Num(35000)

C24_Witness ==
    /\ HeaderInRow3
    /\ DataThenTotal
    /\ ingestRes.step = "done"
    /\ ingestRes.result.rowsRead = 1
    /\ ingestRes.result.inserted = 1
    /\ <<"0", "0", "0", "0", "1", "2", "3", "4", "5">> \in DOMAIN SalaryRecord

(***************************************************************************)
(* C27.  A row inside the data region that carries a total keyword and a   *)
(* summed amount, but no value in the identifier column or the account     *)
(* column, is never emitted as a payroll record and never counted in       *)
(* rowsRead: the call of the row callback for such a row leaves rows and   *)
(* rowsRead as they were.                                                  *)
(***************************************************************************)
TotalKeywords == {<<"t", "o", "t", "a", "l">>, <<"u091C", "u092E", "u094D", "u092E", "u093E">>}

\* the row that the next call of the row callback visits
RowVisited == ingestIn[ingestRes.rowNumber]

\* the row visited is a total row below the header of a mapped worksheet
TotalRowVisited ==
    /\ ingestRes.step = "rows"
    /\ ingestRes.rowNumber <= Len(ingestIn)
    /\ ingestRes.rowNumber > ingestRes.mapping.headerRow
    /\ ingestRes.mapping.panCol # 0
    /\ getCellValue(RowVisited, ingestRes.mapping.panCol) = <<>>
    /\ getCellValue(RowVisited, ingestRes.mapping.accountCol) = <<>>
    /\ \E c \in 1..Len(RowVisited), k \in TotalKeywords :
           includes(toLowerCase(RowVisited[c]), k)
    /\ \E c \in 1..Len(RowVisited) :
           /\ StripNonDigits(RowVisited[c]) # <<>>
           /\ parseAmount(RowVisited[c]) > 0

C27_AsStated ==
    [][(TotalRowVisited /\ ingestRes'.rowNumber = ingestRes.rowNumber + 1) =>
           /\ ingestRes'.rows = ingestRes.rows
           /\ ingestRes'.result.rowsRead = ingestRes.result.rowsRead]_vars

(***************************************************************************)
(* C25.  The salary history is complete: a salary record that the person   *)
(* lookup returns before a step of the upload handler is returned after    *)
(* it as well, so that two uploads with different amounts for the same     *)
(* identifier leave two records and a later upload never replaces an       *)
(* earlier record.                                                         *)
(***************************************************************************)
\* personController.ts, lines 37-83: getPersonByPAN of the first page, with no
\* date filter, on the stores given
getPersonByPAN(persons, records, pan) ==
    IF pan \notin DOMAIN persons
    THEN [status |-> 404, salaryRecords |-> <<>>]
    ELSE [status |-> 200,
          salaryRecords |-> IF pan \in DOMAIN records THEN <<records[pan]>> ELSE <<>>]

\* the amounts of the salary records the lookup returns
AmountsReturned(persons, records, pan) ==
    LET found == getPersonByPAN(persons, records, pan).salaryRecords
    IN  {found[i].netSalary : i \in 1..Len(found)}

C25_AsStated ==
    [][\A pan \in DOMAIN Person :
           AmountsReturned(Person, SalaryRecord, pan)
               \subseteq AmountsReturned(Person', SalaryRecord', pan)]_vars

(***************************************************************************)
(* C28.  Every identifier the upload pipeline stores passes the strict     *)
(* validatePAN that guards /api/person/:pan: the identifier of a row that  *)
(* is emitted is accepted by validatePAN, so it has neither 10 to 12       *)
(* digits nor more than 17.                                                *)
(***************************************************************************)
C28_AsStated ==
    rowRes.emitted =>
        /\ validatePAN(rowRes.identifier)
        /\ Len(rowRes.identifier) \notin 10..12
        /\ Len(rowRes.identifier) <= 17

(***************************************************************************)
(* C29.  Frame of the person store: when insertRows has upserted the       *)
(* persons of a batch, the name, position and department stored for an     *)
(* identifier of the batch are the non-empty values of the first row of    *)
(* the batch that carries it, not of the last; an empty field keeps the    *)
(* value stored before, the persons of other identifiers are untouched,    *)
(* and the store holds one person per identifier.                          *)
(***************************************************************************)
\* insertRows has upserted the persons of the batch and returns
PersonsUpserted == pc = "persons" /\ FileFinishes

\* the first row of rs, in file order, that carries the identifier pan
FirstRowOf(rs, pan) == rs[Lowest(RowsOf(rs, pan))]

\* the value stored for a field whose value in the row is new
KeptOrSet(new, pan, field) ==
    IF new # <<>> THEN new
    ELSE IF pan \in DOMAIN Person THEN Person[pan][field]
    ELSE <<>>

Succeeds(r) == refreshReq[r].pc = "create" /\ refreshReq'[r].pc = "done"

\* request r arrives in this step
Arrives(r) == refreshReq[r].pc = "idle" /\ refreshReq'[r].pc # "idle"

C26_Rotation ==
    [][/\ \A r \in Requests :
              /\ Succeeds(r) =>
                     /\ refreshReq'[r].status = 200
                     /\ refreshReq[r].presented \notin DOMAIN RefreshToken'
                     /\ DOMAIN RefreshToken' \ DOMAIN RefreshToken
                            = {refreshReq'[r].newToken}
                     /\ RefreshToken'[refreshReq'[r].newToken].userId = refreshReq[r].userId
                     /\ \A t \in DOMAIN RefreshToken : RefreshToken'[t] = RefreshToken[t]
              /\ (Arrives(r) /\ refreshReq'[r].presented \in Consumed) =>
                     /\ refreshReq'[r].pc = "done"
                     /\ refreshReq'[r].status = 401
       /\ \A t \in {p[1] : p \in rotations'} : t \notin DOMAIN RefreshToken']_vars

\* a refresh consumed a token, and a later refresh that presented it was rejected
C26_Witness ==
    \E r, q \in Requests :
        /\ refreshReq[r].status = 200
        /\ refreshReq[r].newToken \in DOMAIN RefreshToken
        /\ refreshReq[q].presented = refreshReq[r].presented
        /\ refreshReq[q].late
        /\ refreshReq[q].status = 401

(***************************************************************************)
(* C30.  Two refresh requests that present the same valid token and run    *)
(* concurrently cannot both succeed: at most one new token is issued for   *)
(* a token that is consumed.                                               *)
(***************************************************************************)
C30_AsStated ==
    \A a, b \in rotations : a[1] = b[1] => a = b

====
